---- MODULE Spec2Model ----
(***************************************************************************)
(* Model of the pmdaemon supervision engine: ProcessManager (manager.rs)   *)
(* and Process (process.rs).  The manager owns `processes`, `name_to_id`   *)
(* and `allocated_ports`; the operating system owns the set of live child  *)
(* processes; the configuration directory holds the persisted files that   *)
(* ProcessManager::new() reads back.                                       *)
(***************************************************************************)
EXTENDS Integers, Sequences, FiniteSets, TLC

\* ------------------------------------------------------------------ bounds
\* ports are 1..MaxPort
MaxPort == 2
\* the operating system hands out the pids 1..MaxPid, each once: a spawn after the
\* last one fails
MaxPid == 2
\* restart and the reconcile tick are not applied to a record restarted this often
MaxRestartCount == 1
\* a start asks for 1..MaxInstances instances
MaxInstances == 2
\* callers address the records with the ids 1..MaxIds by uuid as well as by name
MaxIds == 1
\* a health check is configured with 0..MaxRetries retries and run up to MaxChecks times
MaxRetries == 3
MaxChecks == 6
\* the port settings that are written as text and read back have ports 0..MaxTextPort
\* (and the largest u16)
MaxTextPort == 11

\* ------------------------------------------------------------------ units
\* the bytes of a kilobyte, a megabyte and a gigabyte
BytesPerKB == 1024
BytesPerMB == 1048576
BytesPerGB == 1073741824

\* --------------------------------------------------------------- universes
UserNames == {"a", "b"}
Digit == <<"0", "1", "2", "3", "4", "5", "6", "7", "8", "9">>
UuidStr == <<"u1", "u2", "u3", "u4", "u5", "u6", "u7", "u8", "u9", "u10", "u11", "u12">>
\* a process name that is also the text of a uuid: the one of the id that "a" is given
AliasName == UuidStr[1]
\* max_restarts = 0: no automatic restart is allowed
MaxRestartsChoices == {0}
\* a limit of one megabyte; a sample just above it and a sample of two megabytes
MemoryLimits == {BytesPerMB}
MemorySamples == {BytesPerMB + 1, 2 * BytesPerMB}

NoPort == [kind |-> "none", lo |-> 0, hi |-> 0]
Single(p) == [kind |-> "single", lo |-> p, hi |-> p]
Range(a, b) == [kind |-> "range", lo |-> a, hi |-> b]
Auto(a, b) == [kind |-> "auto", lo |-> a, hi |-> b]
\* the port settings a start is given, and the ones a restart may override with
PortConfigs == {NoPort, Single(1), Range(1, MaxPort), Auto(1, MaxPort)}
PortOverrides == {NoPort, Single(1), Single(MaxPort), Auto(1, MaxPort)}

\* HashMap::new(): the empty map (the records, the name index, a config's env)
Empty == [x \in {} |-> 0]

ProcessConfigs ==
    [name : UserNames, port : PortConfigs, instances : 1..MaxInstances,
     autorestart : BOOLEAN, max_restarts : MaxRestartsChoices,
     max_memory_restart : MemoryLimits, env : {Empty}]
\* the configs started one instance at a time ("a" with autorestart, "b" without), and
\* the configs of "a" started as one instance or as a cluster a-0, a-1, ...
SingleConfigs == {c \in ProcessConfigs : c.instances = 1 /\ c.autorestart = (c.name = "a")}
ClusterConfigs == {c \in ProcessConfigs : c.name = "a" /\ c.autorestart}
\* the single-instance configs with a limit of one megabyte or of 1025 kilobytes
PersistLimits == MemoryLimits \cup {1025 * BytesPerKB}
PersistConfigs ==
    {[c EXCEPT !.max_memory_restart = m] : c \in SingleConfigs, m \in PersistLimits}
\* a cluster of "a" on a range of one port, which is too short for it
ShortRangeConfigs ==
    {[c EXCEPT !.port = Range(1, 1)] : c \in {d \in ClusterConfigs : d.instances > 1}}
\* the single-instance configs with "b" renamed to the name that spells an id
AliasConfigs ==
    {[c EXCEPT !.name = IF c.name = "a" THEN "a" ELSE AliasName] : c \in SingleConfigs}

\* ------------------------------------------------------------------- state
VARIABLES processes, name_to_id, allocated_ports, alive, nextPid, disk
\* the operating system spawns the pids 1..pid_max
VARIABLES pid_max
\* the exit code each child ends with, once it ends (-1: None, ended by a signal)
VARIABLES exit_status
\* a HealthCheck (health.rs): its config and its status
VARIABLES health
\* a PortConfig on its way through Display and PortConfig::parse: the setting, the text
\* written for it and the result of parsing that text
VARIABLES port_io
\* the web server (web.rs): the configured api_key, the last request and what became of it
VARIABLES web
\* SignalHandler::shutdown_requested (signals.rs)
VARIABLES shutdown_requested
\* the supervisor process, which owns the ProcessManager, is running
VARIABLES supervisor_up
\* the tasks that share one manager: the lock around the manager, the lock around its
\* records, where each task is, the call each of the two mutating tasks is in, and what
\* the reading task saw last
VARIABLES manager_lock, processes_lock, at, cmd_op, tick_op, observed
\* the locks of the manager seen as locks only: who holds and who waits for each lock,
\* and the operation each calling task is in with the step it has reached
VARIABLES lock_table, lock_call
\* a graceful shutdown of one process in progress (signals.rs)
VARIABLES term
\* the event stream (web.rs): the broadcast channel and one websocket subscriber
VARIABLES stream

extra == <<lock_table, lock_call, term, stream>>

tasks == <<manager_lock, processes_lock, at, cmd_op, tick_op, observed, extra>>

\* the state outside the manager, which no manager operation touches
aux == <<health, port_io, web, shutdown_requested, supervisor_up, tasks>>

manager_vars == <<processes, name_to_id, allocated_ports, alive, nextPid, disk, pid_max, exit_status>>

vars == <<manager_vars, aux>>

\* ---------------------------------------------------------------- helpers
Put(f, k, v) == [x \in DOMAIN f \cup {k} |-> IF x = k THEN v ELSE f[x]]
Drop(f, k) == [x \in DOMAIN f \ {k} |-> f[x]]

\* u16::to_string / u32::to_string of a small number
to_string(n) == Digit[n + 1]

\* format!("{}-{}", config.name, i)
InstanceName(base, i) == base \o "-" \o to_string(i)

AllNames ==
    UserNames \cup {AliasName}
        \cup {InstanceName(b, i) : b \in UserNames, i \in 0..(MaxInstances - 1)}

\* the names in a fixed order, "a" first
RECURSIVE SeqOf(_)
SeqOf(S) == IF S = {} THEN <<>> ELSE LET x == CHOOSE y \in S : TRUE IN <<x>> \o SeqOf(S \ {x})
NameSeq == <<"a">> \o SeqOf(AllNames \ {"a"})

\* Uuid::new_v4() for a record named `name`: an id that no record or index entry carries
\* (the id reserved for the name when it is free, else the smallest free one)
NameId(name) == CHOOSE i \in 1..Len(NameSeq) : NameSeq[i] = name
UsedIds(M) == DOMAIN M.processes \cup {M.name_to_id[n] : n \in DOMAIN M.name_to_id}
NewV4(M, name) ==
    IF NameId(name) \notin UsedIds(M)
    THEN NameId(name)
    ELSE CHOOSE i \in 1..Len(UuidStr) :
             i \notin UsedIds(M) /\ \A j \in 1..(i - 1) : j \in UsedIds(M)

Pack ==
    [processes |-> processes, name_to_id |-> name_to_id, allocated_ports |-> allocated_ports,
     alive |-> alive, nextPid |-> nextPid, disk |-> disk, pid_max |-> pid_max,
     exit_status |-> exit_status]

UnpackManager(M) ==
    /\ processes' = M.processes
    /\ name_to_id' = M.name_to_id
    /\ allocated_ports' = M.allocated_ports
    /\ alive' = M.alive
    /\ nextPid' = M.nextPid
    /\ disk' = M.disk
    /\ pid_max' = M.pid_max
    /\ exit_status' = M.exit_status

Unpack(M) ==
    /\ UnpackManager(M)
    /\ UNCHANGED aux

\* ----------------------------------------------------------- port allocator
PortRange(pc) == pc.lo..pc.hi

FreeInRange(ports, pc) == {p \in PortRange(pc) : p \notin ports}

\* a scan that keeps the last free port of the range instead of the first
LastFree(ports, pc) == CHOOSE p \in FreeInRange(ports, pc) : \A q \in FreeInRange(ports, pc) : p >= q

FirstFree(ports, pc) == CHOOSE p \in FreeInRange(ports, pc) : \A q \in FreeInRange(ports, pc) : p <= q

\* an allocator whose Range arm inserts the ports one by one as it tests them, so that
\* a failure leaves the ports below the first taken one reserved
allocate_port_partial(ports, pc) ==
    CASE pc.kind = "single" ->
            IF pc.lo \in ports
            THEN [ok |-> FALSE, port |-> 0, ports |-> ports]
            ELSE [ok |-> TRUE, port |-> pc.lo, ports |-> ports \cup {pc.lo}]
      [] pc.kind = "range" ->
            IF PortRange(pc) \cap ports # {}
            THEN [ok |-> FALSE, port |-> 0,
                  ports |-> ports \cup {p \in PortRange(pc) :
                                           \A q \in PortRange(pc) \cap ports : p < q}]
            ELSE [ok |-> TRUE, port |-> pc.lo, ports |-> ports \cup PortRange(pc)]
      [] pc.kind = "auto" ->
            IF FreeInRange(ports, pc) = {}
            THEN [ok |-> FALSE, port |-> 0, ports |-> ports]
            ELSE [ok |-> TRUE, port |-> FirstFree(ports, pc),
                  ports |-> ports \cup {FirstFree(ports, pc)}]

\* ProcessManager::allocate_port: [ok, port, ports]
allocate_port(ports, pc) ==
    CASE pc.kind = "single" ->
            IF pc.lo \in ports
            THEN [ok |-> FALSE, port |-> 0, ports |-> ports]
            ELSE [ok |-> TRUE, port |-> pc.lo, ports |-> ports \cup {pc.lo}]
      [] pc.kind = "range" ->
            IF PortRange(pc) \cap ports # {}
            THEN [ok |-> FALSE, port |-> 0, ports |-> ports]
            ELSE [ok |-> TRUE, port |-> pc.lo, ports |-> ports \cup PortRange(pc)]
      [] pc.kind = "auto" ->
            IF FreeInRange(ports, pc) = {}
            THEN [ok |-> FALSE, port |-> 0, ports |-> ports]
            ELSE [ok |-> TRUE, port |-> FirstFree(ports, pc),
                  ports |-> ports \cup {FirstFree(ports, pc)}]

\* ProcessManager::deallocate_ports
deallocate_ports(ports, pc, assigned_port) ==
    CASE pc.kind = "single" -> ports \ {pc.lo}
      [] pc.kind = "range" -> ports \ PortRange(pc)
      [] pc.kind = "auto" -> IF assigned_port # 0 THEN ports \ {assigned_port} ELSE ports
      [] OTHER -> ports

\* ------------------------------------------------------------------ Process
\* Process::new
NewProcess(config) ==
    [config |-> config, state |-> "Stopped", child |-> 0, restarts |-> 0,
     assigned_port |-> 0, instance |-> -1, started_at |-> 0, exit_code |-> -1]

\* Utc::now(): the clock shows the number of children spawned so far
Utc_now(M) == M.nextPid - 1

\* Process::set_state at time now (started_at = 0 stands for None)
set_state(p, state, now) ==
    [p EXCEPT !.state = state,
              !.started_at = IF state = "Online" /\ @ = 0 THEN now ELSE @]

\* Process::is_running
is_running(p) == p.state \in {"Online", "Starting"}

\* Process::pid
pid(p) == p.child

\* Process::start_with_logs on process p of manager state M; spawn_ok is the
\* outcome of cmd.spawn().  Result: [ok, err, p, M]
start_with_logs(M, p, spawn_ok) ==
    IF is_running(p)
    THEN [ok |-> FALSE, err |-> "AlreadyRunning", p |-> p, M |-> M]
    ELSE IF spawn_ok /\ M.nextPid <= M.pid_max
         THEN LET M1 == [M EXCEPT !.alive = @ \cup {M.nextPid}, !.nextPid = @ + 1]
              IN [ok |-> TRUE, err |-> "",
                  p |-> set_state([p EXCEPT !.child = M.nextPid], "Online", Utc_now(M1)),
                  M |-> M1]
         ELSE [ok |-> FALSE, err |-> "StartFailed",
               p |-> set_state(p, "Errored", Utc_now(M)), M |-> M]

\* Process::stop; stop_ok is the outcome of waiting for / killing the child.
\* Result: [ok, p, M]
stop(M, p, stop_ok) ==
    IF ~is_running(p)
    THEN [ok |-> TRUE, p |-> p, M |-> M]
    ELSE IF p.child # 0
         THEN IF stop_ok
              THEN [ok |-> TRUE,
                    p |-> [p EXCEPT !.state = "Stopped", !.child = 0, !.started_at = 0,
                                    !.exit_code = M.exit_status[p.child]],
                    M |-> [M EXCEPT !.alive = @ \ {p.child}]]
              ELSE [ok |-> FALSE, p |-> [p EXCEPT !.state = "Stopping", !.child = 0], M |-> M]
         ELSE [ok |-> TRUE, p |-> [p EXCEPT !.state = "Stopped", !.started_at = 0], M |-> M]

\* Process::restart.  Result: [ok, err, p, M]
restart(M, p, spawn_ok, stop_ok) ==
    LET p1 == [p EXCEPT !.state = "Restarting"]
        s == IF is_running(p1) THEN stop(M, p1, stop_ok) ELSE [ok |-> TRUE, p |-> p1, M |-> M]
    IN IF ~s.ok
       THEN [ok |-> FALSE, err |-> "StopFailed", p |-> s.p, M |-> s.M]
       ELSE start_with_logs(s.M, [s.p EXCEPT !.restarts = @ + 1], spawn_ok)

\* a liveness check that keeps the start time of the child that exited
check_status_keeps_started_at(M, p) ==
    IF p.child # 0
    THEN IF p.child \notin M.alive
         THEN [running |-> FALSE,
               p |-> [p EXCEPT !.state = "Stopped", !.child = 0,
                               !.exit_code = M.exit_status[p.child]]]
         ELSE [running |-> TRUE, p |-> p]
    ELSE [running |-> FALSE, p |-> p]

\* Process::check_status.  Result: [running, p]
check_status(M, p) ==
    IF p.child # 0
    THEN IF p.child \notin M.alive
         THEN [running |-> FALSE,
               p |-> [p EXCEPT !.state = "Stopped", !.child = 0, !.started_at = 0,
                               !.exit_code = M.exit_status[p.child]]]
         ELSE [running |-> TRUE, p |-> p]
    ELSE [running |-> FALSE, p |-> p]

\* Process::should_auto_restart
should_auto_restart(p) ==
    p.config.autorestart /\ p.state = "Stopped" /\ p.config.max_restarts > p.restarts

\* ---------------------------------------------------------------- PortConfig
\* u16::MAX
U16Max == 65535

\* a text is the sequence of its characters
IsDigit(c) == \E d \in 0..9 : Digit[d + 1] = c
DigitValue(c) == CHOOSE d \in 0..9 : Digit[d + 1] = c

\* write!(f, "{}", n) of an unsigned number
RECURSIVE fmt_unsigned(_)
fmt_unsigned(n) ==
    IF n < 10 THEN <<Digit[n + 1]>> ELSE fmt_unsigned(n \div 10) \o <<Digit[(n % 10) + 1]>>

\* the value of a text of digits
RECURSIVE digits_value(_)
digits_value(cs) ==
    IF cs = <<>> THEN 0
    ELSE 10 * digits_value(SubSeq(cs, 1, Len(cs) - 1)) + DigitValue(cs[Len(cs)])

\* str::parse::<u16>: -1 stands for Err (no digits, another character, or too large)
parse_u16(cs) ==
    IF cs = <<>> \/ (\E i \in 1..Len(cs) : ~IsDigit(cs[i])) THEN -1
    ELSE IF digits_value(cs) > U16Max THEN -1
    ELSE digits_value(cs)

\* str::starts_with and str::strip_prefix
starts_with(cs, prefix) ==
    Len(cs) >= Len(prefix) /\ SubSeq(cs, 1, Len(prefix)) = prefix
strip_prefix(cs, prefix) == SubSeq(cs, Len(prefix) + 1, Len(cs))

\* str::contains(c)
contains(cs, c) == \E i \in 1..Len(cs) : cs[i] = c

\* str::split(c): the parts between the occurrences of c
RECURSIVE split(_, _)
split(cs, c) ==
    IF ~contains(cs, c) THEN <<cs>>
    ELSE LET i == CHOOSE j \in 1..Len(cs) : cs[j] = c /\ \A k \in 1..(j - 1) : cs[k] # c
         IN <<SubSeq(cs, 1, i - 1)>> \o split(SubSeq(cs, i + 1, Len(cs)), c)

AutoPrefix == <<"a", "u", "t", "o", ":">>

\* a Display for PortConfig that writes Auto like Range, without "auto:"
PortConfig_fmt_bare(pc) ==
    CASE pc.kind = "single" -> fmt_unsigned(pc.lo)
      [] pc.kind = "range" -> fmt_unsigned(pc.lo) \o <<"-">> \o fmt_unsigned(pc.hi)
      [] pc.kind = "auto" -> fmt_unsigned(pc.lo) \o <<"-">> \o fmt_unsigned(pc.hi)

\* impl Display for PortConfig
PortConfig_fmt(pc) ==
    CASE pc.kind = "single" -> fmt_unsigned(pc.lo)
      [] pc.kind = "range" -> fmt_unsigned(pc.lo) \o <<"-">> \o fmt_unsigned(pc.hi)
      [] pc.kind = "auto" ->
            AutoPrefix \o fmt_unsigned(pc.lo) \o <<"-">> \o fmt_unsigned(pc.hi)

\* PortConfig::parse_range.  Result: [ok, lo, hi]
parse_range(cs) ==
    LET parts == split(cs, "-") IN
    IF Len(parts) # 2 THEN [ok |-> FALSE, lo |-> 0, hi |-> 0]
    ELSE LET start_port == parse_u16(parts[1])
             end_port == parse_u16(parts[2])
         IN IF start_port < 0 \/ end_port < 0 \/ start_port > end_port
            THEN [ok |-> FALSE, lo |-> 0, hi |-> 0]
            ELSE [ok |-> TRUE, lo |-> start_port, hi |-> end_port]

\* PortConfig::parse of a text without surrounding white space.  Result: [ok, value]
PortConfig_parse(cs) ==
    IF starts_with(cs, AutoPrefix)
    THEN LET r == parse_range(strip_prefix(cs, AutoPrefix))
         IN [ok |-> r.ok, value |-> IF r.ok THEN Auto(r.lo, r.hi) ELSE NoPort]
    ELSE IF contains(cs, "-")
    THEN LET r == parse_range(cs)
         IN [ok |-> r.ok, value |-> IF r.ok THEN Range(r.lo, r.hi) ELSE NoPort]
    ELSE LET port == parse_u16(cs)
         IN [ok |-> port >= 0, value |-> IF port >= 0 THEN Single(port) ELSE NoPort]

\* no text has been parsed yet
NotParsed == [ok |-> FALSE, value |-> NoPort]

\* the port settings with start <= end over the ports 0..MaxTextPort and u16::MAX
TextPorts == 0..MaxTextPort \cup {U16Max}
PortSpecs ==
    {Single(p) : p \in TextPorts}
        \cup {Range(a, b) : a, b \in TextPorts} \cup {Auto(a, b) : a, b \in TextPorts}
OrderedPortSpecs == {pc \in PortSpecs : pc.lo <= pc.hi}

\* ------------------------------------------------------------ memory values
\* str::ends_with
ends_with(cs, suffix) ==
    Len(cs) >= Len(suffix) /\ SubSeq(cs, Len(cs) - Len(suffix) + 1, Len(cs)) = suffix

\* str::trim_end_matches: the suffix is removed as often as it occurs at the end
RECURSIVE trim_end_matches(_, _)
trim_end_matches(cs, suffix) ==
    IF suffix # <<>> /\ ends_with(cs, suffix)
    THEN trim_end_matches(SubSeq(cs, 1, Len(cs) - Len(suffix)), suffix)
    ELSE cs

\* 10^n
RECURSIVE pow10(_)
pow10(n) == IF n = 0 THEN 1 ELSE 10 * pow10(n - 1)

\* str::parse::<f64> of a text of digits with at most one point: the value is
\* num / den.  Result: [ok, num, den]
parse_f64(cs) ==
    LET parts == split(cs, ".")
        digits(t) == \A i \in 1..Len(t) : IsDigit(t[i])
    IN IF Len(parts) = 1 /\ parts[1] # <<>> /\ digits(parts[1])
       THEN [ok |-> TRUE, num |-> digits_value(parts[1]), den |-> 1]
       ELSE IF Len(parts) = 2 /\ digits(parts[1]) /\ digits(parts[2])
                 /\ (parts[1] # <<>> \/ parts[2] # <<>>)
       THEN [ok |-> TRUE,
             num |-> digits_value(parts[1]) * pow10(Len(parts[2])) + digits_value(parts[2]),
             den |-> pow10(Len(parts[2]))]
       ELSE [ok |-> FALSE, num |-> 0, den |-> 1]

\* parse_memory_string of a text in upper case without white space: -1 stands for Err.
\* (number * unit).round() rounds halves away from zero
parse_memory_string(cs) ==
    IF cs = <<>> THEN -1
    ELSE
    LET K == <<"K">>  KB == <<"K", "B">>  M == <<"M">>  MB == <<"M", "B">>
        G == <<"G">>  GB == <<"G", "B">>  B == <<"B">>
        number_part ==
            IF ends_with(cs, K) \/ ends_with(cs, KB)
            THEN trim_end_matches(trim_end_matches(cs, KB), K)
            ELSE IF ends_with(cs, M) \/ ends_with(cs, MB)
            THEN trim_end_matches(trim_end_matches(cs, MB), M)
            ELSE IF ends_with(cs, G) \/ ends_with(cs, GB)
            THEN trim_end_matches(trim_end_matches(cs, GB), G)
            ELSE IF ends_with(cs, B)
            THEN trim_end_matches(cs, B)
            ELSE cs
        unit ==
            IF ends_with(cs, K) \/ ends_with(cs, KB) THEN BytesPerKB
            ELSE IF ends_with(cs, M) \/ ends_with(cs, MB) THEN BytesPerMB
            ELSE IF ends_with(cs, G) \/ ends_with(cs, GB) THEN BytesPerGB
            ELSE 1
        number == parse_f64(number_part)
    IN IF ~number.ok THEN -1
       ELSE LET scaled == number.num * unit
            IN (scaled \div number.den)
                   + (IF 2 * (scaled % number.den) >= number.den THEN 1 ELSE 0)

\* the digits format!("{:.1}", bytes / unit) prints, as a number of tenths: the nearest
\* tenth, a value half-way between two tenths going to the even one
tenths(bytes, unit) ==
    LET q == (bytes * 10) \div unit
        r == (bytes * 10) % unit
    IN IF 2 * r > unit THEN q + 1
       ELSE IF 2 * r < unit THEN q
       ELSE IF q % 2 = 0 THEN q ELSE q + 1

\* format!("{:.1}", x) for x = t / 10
fmt_one_decimal(t) == fmt_unsigned(t \div 10) \o <<".">> \o <<Digit[(t % 10) + 1]>>

\* format_memory
format_memory(bytes) ==
    IF bytes = 0 THEN <<"-">>
    ELSE IF bytes >= BytesPerGB
    THEN fmt_one_decimal(tenths(bytes, BytesPerGB)) \o <<"G", "B">>
    ELSE IF bytes >= BytesPerMB
    THEN fmt_one_decimal(tenths(bytes, BytesPerMB)) \o <<"M", "B">>
    ELSE IF bytes >= BytesPerKB
    THEN fmt_one_decimal(tenths(bytes, BytesPerKB)) \o <<"K", "B">>
    ELSE fmt_unsigned(bytes) \o <<"B">>

\* ------------------------------------------------------- config files (JSON)
\* a JSON value of a config file: null or a string
JsonNull == [json |-> "null", text |-> <<>>]
JsonString(cs) == [json |-> "string", text |-> cs]

\* serde_json::to_string_pretty(&process.config): the port is written with Display
\* and the memory limit with memory_value_serde::serialize (None, here 0, as null)
ProcessConfig_to_json(config) ==
    [config EXCEPT
        !.port = IF @.kind = "none" THEN JsonNull ELSE JsonString(PortConfig_fmt(@)),
        !.max_memory_restart = IF @ = 0 THEN JsonNull ELSE JsonString(format_memory(@))]

\* serde_json::from_str::<ProcessConfig>: the port is read with PortConfig::parse and
\* the memory limit with memory_value_serde::deserialize.  Result: [ok, config]
ProcessConfig_from_json(j) ==
    LET port == IF j.port.json = "null"
                THEN [ok |-> TRUE, value |-> NoPort]
                ELSE PortConfig_parse(j.port.text)
        memory == IF j.max_memory_restart.json = "null"
                  THEN 0
                  ELSE parse_memory_string(j.max_memory_restart.text)
    IN [ok |-> port.ok /\ memory >= 0,
        config |-> [j EXCEPT !.port = port.value,
                             !.max_memory_restart = IF memory >= 0 THEN memory ELSE 0]]

\* ------------------------------------------------------------ persistence
\* save_pid_file
save_pid_file(d, name, thePid) == [d EXCEPT !.pid = Put(@, name, thePid)]
\* remove_pid_file
remove_pid_file(d, name) == [d EXCEPT !.pid = Drop(@, name)]
\* save_process_config
save_process_config(d, p) ==
    [d EXCEPT !.cfg = Put(@, p.config.name, ProcessConfig_to_json(p.config))]
\* save_process_metadata
save_process_metadata(d, p) ==
    [d EXCEPT !.meta = Put(@, p.config.name,
        [assigned_port |-> p.assigned_port, instance |-> p.instance])]
\* remove_process_config
remove_process_config(d, name) == [d EXCEPT !.cfg = Drop(@, name), !.meta = Drop(@, name)]

\* ----------------------------------------------------------------- manager
\* a resolution that looks the name up before it tries the text as an id
resolve_identifier_name_first(M, identifier) ==
    IF identifier \in DOMAIN M.name_to_id
    THEN M.name_to_id[identifier]
    ELSE IF \E i \in DOMAIN M.processes : UuidStr[i] = identifier
         THEN CHOOSE i \in DOMAIN M.processes : UuidStr[i] = identifier
         ELSE 0

\* ProcessManager::resolve_identifier: the key, or 0 for NotFound
resolve_identifier(M, identifier) ==
    IF \E i \in DOMAIN M.processes : UuidStr[i] = identifier
    THEN CHOOSE i \in DOMAIN M.processes : UuidStr[i] = identifier
    ELSE IF identifier \in DOMAIN M.name_to_id THEN M.name_to_id[identifier] ELSE 0

\* the identifiers a caller may pass: the names and ids in use, and an unknown name
Unknown == "zz"
Identifiers(M) ==
    DOMAIN M.name_to_id \cup {UuidStr[i] : i \in DOMAIN M.processes \cap 1..MaxIds}
        \cup {Unknown}

\* ProcessManager::start_single_instance.  write_fail names the persistence write
\* that fails: 0 none, 1 the pid file, 2 the config file, 3 the metadata file.
\* Result: [ok, err, id, M]
start_single_instance_io(M, config, spawn_ok, write_fail) ==
    IF config.name \in DOMAIN M.name_to_id
    THEN [ok |-> FALSE, err |-> "AlreadyExists", id |-> 0, M |-> M]
    ELSE
    LET process_id == NewV4(M, config.name)
        p0 == NewProcess(config)
        a == IF config.port.kind # "none"
             THEN allocate_port(M.allocated_ports, config.port)
             ELSE [ok |-> TRUE, port |-> 0, ports |-> M.allocated_ports]
    IN IF ~a.ok
       THEN [ok |-> FALSE, err |-> "PortInUse", id |-> 0, M |-> M]
       ELSE
       LET M1 == [M EXCEPT !.allocated_ports = a.ports]
           p1 == IF config.port.kind # "none"
                 THEN [p0 EXCEPT !.assigned_port = a.port,
                                 !.config.env = Put(@, "PORT", to_string(a.port))]
                 ELSE p0
           s == start_with_logs(M1, p1, spawn_ok)
       IN IF ~s.ok
          THEN [ok |-> FALSE, err |-> s.err, id |-> 0, M |-> s.M]
          ELSE
          LET p2 == s.p
              d1 == save_pid_file(s.M.disk, config.name, pid(s.p))
              d2 == save_process_config(d1, p2)
              d3 == save_process_metadata(d2, p2)
          IN CASE write_fail = 1 -> [ok |-> FALSE, err |-> "Io", id |-> 0, M |-> s.M]
               [] write_fail = 2 ->
                     [ok |-> FALSE, err |-> "Config", id |-> 0, M |-> [s.M EXCEPT !.disk = d1]]
               [] write_fail = 3 ->
                     [ok |-> FALSE, err |-> "Config", id |-> 0, M |-> [s.M EXCEPT !.disk = d2]]
               [] OTHER ->
                     [ok |-> TRUE, err |-> "", id |-> process_id,
                      M |-> [s.M EXCEPT !.disk = d3,
                                        !.processes = Put(@, process_id, p2),
                                        !.name_to_id = Put(@, config.name, process_id)]]

\* start_single_instance when every persistence write succeeds
start_single_instance(M, config, spawn_ok) ==
    start_single_instance_io(M, config, spawn_ok, 0)

\* ProcessManager::stop (and stop_by_id once the id is known).  Result: [ok, err, M]
stop_by_id(M, process_id, stop_ok) ==
    IF process_id \in DOMAIN M.processes
    THEN LET s == stop(M, M.processes[process_id], stop_ok)
             M1 == [s.M EXCEPT !.processes = Put(@, process_id, s.p)]
         IN IF ~s.ok
            THEN [ok |-> FALSE, err |-> "StopFailed", M |-> M1]
            ELSE [ok |-> TRUE, err |-> "",
                  M |-> [M1 EXCEPT !.disk = remove_pid_file(@, s.p.config.name)]]
    ELSE [ok |-> TRUE, err |-> "", M |-> M]

manager_stop(M, identifier, stop_ok) ==
    LET process_id == resolve_identifier(M, identifier)
    IN IF process_id = 0
       THEN [ok |-> FALSE, err |-> "NotFound", M |-> M]
       ELSE stop_by_id(M, process_id, stop_ok)

\* ProcessManager::restart_with_port; port_override = NoPort stands for None.
\* Result: [ok, err, M]
restart_with_port(M, identifier, port_override, spawn_ok, stop_ok) ==
    LET process_id == resolve_identifier(M, identifier)
    IN IF process_id = 0
       THEN [ok |-> FALSE, err |-> "NotFound", M |-> M]
       ELSE IF process_id \notin DOMAIN M.processes
       THEN [ok |-> TRUE, err |-> "", M |-> M]
       ELSE
       LET p == M.processes[process_id]
           freed == IF port_override.kind # "none" /\ p.config.port.kind # "none"
                    THEN deallocate_ports(M.allocated_ports, p.config.port, p.assigned_port)
                    ELSE M.allocated_ports
           a == IF port_override.kind # "none"
                THEN allocate_port(freed, port_override)
                ELSE [ok |-> TRUE, port |-> p.assigned_port, ports |-> freed]
       IN IF ~a.ok
          THEN [ok |-> FALSE, err |-> "PortInUse", M |-> [M EXCEPT !.allocated_ports = a.ports]]
          ELSE
          LET p1 == IF port_override.kind # "none"
                    THEN [p EXCEPT !.assigned_port = a.port,
                                   !.config.env = Put(@, "PORT", to_string(a.port))]
                    ELSE p
              r == restart([M EXCEPT !.allocated_ports = a.ports], p1, spawn_ok, stop_ok)
          IN [ok |-> r.ok, err |-> r.err,
              M |-> [r.M EXCEPT !.processes = Put(@, process_id, r.p)]]

\* a removal that forgets the name index: the record goes, its name stays
remove_process_keeps_name(M, process_id, stop_ok) ==
    [stopped |-> is_running(M.processes[process_id]),
     M |-> [M EXCEPT !.processes = Drop(M.processes, process_id),
                     !.disk = remove_pid_file(
                                  remove_process_config(@, M.processes[process_id].config.name),
                                  M.processes[process_id].config.name)]]

\* The per-record body shared by delete, delete_all and delete_by_status:
\* remove the record, stop it if running, remove the name, release the ports,
\* remove the files.  Result: [stopped, M]
remove_process(M, process_id, stop_ok) ==
    LET p == M.processes[process_id]
        was_running == is_running(p)
        s == IF was_running THEN stop(M, p, stop_ok) ELSE [ok |-> TRUE, p |-> p, M |-> M]
        ports == IF p.config.port.kind # "none"
                 THEN deallocate_ports(M.allocated_ports, p.config.port, p.assigned_port)
                 ELSE M.allocated_ports
    IN [stopped |-> was_running /\ s.ok,
        M |-> [s.M EXCEPT !.processes = Drop(M.processes, process_id),
                          !.name_to_id = Drop(@, p.config.name),
                          !.allocated_ports = ports,
                          !.disk = remove_pid_file(remove_process_config(@, p.config.name),
                                                   p.config.name)]]

\* ProcessManager::delete.  Result: [ok, err, M]
delete(M, identifier, stop_ok) ==
    LET process_id == resolve_identifier(M, identifier)
    IN IF process_id = 0
       THEN [ok |-> FALSE, err |-> "NotFound", M |-> M]
       ELSE IF process_id \notin DOMAIN M.processes
       THEN [ok |-> TRUE, err |-> "", M |-> M]
       ELSE [ok |-> TRUE, err |-> "", M |-> remove_process(M, process_id, stop_ok).M]

\* the loop of delete_all / delete_by_status over the collected ids
RECURSIVE delete_each(_, _, _)
delete_each(M, ids, stop_oks) ==
    IF ids = {}
    THEN [count |-> 0, M |-> M]
    ELSE LET process_id == CHOOSE i \in ids : TRUE
             rest == ids \ {process_id}
         IN IF process_id \notin DOMAIN M.processes
            THEN delete_each(M, rest, stop_oks)
            ELSE LET r == delete_each(remove_process(M, process_id,
                                          process_id \notin DOMAIN stop_oks
                                              \/ stop_oks[process_id]).M,
                                      rest, stop_oks)
                 IN [count |-> r.count + 1, M |-> r.M]

\* ProcessManager::delete_all.  Result: [ok, count, M]
delete_all(M, stop_oks) ==
    LET r == delete_each(M, DOMAIN M.processes, stop_oks)
    IN [ok |-> TRUE, count |-> r.count, M |-> r.M]

\* str::to_lowercase on the status strings offered to delete_by_status
StatusStrings == {"stopped", "Stopped", "ONLINE", "errored", "stopping", "xyz"}
to_lowercase(str) ==
    CASE str = "Stopped" -> "stopped"
      [] str = "ONLINE" -> "online"
      [] OTHER -> str

\* the match of delete_by_status: the ProcessState a lower-case string names, or "" for none
parse_state(lower) ==
    CASE lower = "starting" -> "Starting"
      [] lower = "online" -> "Online"
      [] lower = "stopping" -> "Stopping"
      [] lower = "stopped" -> "Stopped"
      [] lower = "errored" -> "Errored"
      [] lower = "restarting" -> "Restarting"
      [] OTHER -> ""

\* ProcessManager::delete_by_status.  Result: [ok, count, M]
delete_by_status(M, status_str, stop_oks) ==
    LET target_state == parse_state(to_lowercase(status_str))
    IN IF target_state = ""
       THEN [ok |-> FALSE, count |-> 0, M |-> M]
       ELSE LET r == delete_each(M, {k \in DOMAIN M.processes :
                                        M.processes[k].state = target_state}, stop_oks)
            IN [ok |-> TRUE, count |-> r.count, M |-> r.M]

\* a distribution that hands the ports of a range out from the second one on
instance_port_shifted(config, i) ==
    CASE config.port.kind = "auto" -> [ok |-> TRUE, port |-> config.port]
      [] config.port.kind = "range" ->
            IF i < config.port.hi - config.port.lo + 1
            THEN [ok |-> TRUE, port |-> Single(config.port.lo + i + 1)]
            ELSE [ok |-> FALSE, port |-> NoPort]
      [] config.port.kind = "single" ->
            [ok |-> TRUE, port |-> IF i = 0 THEN config.port ELSE NoPort]
      [] OTHER -> [ok |-> TRUE, port |-> NoPort]

\* the port given to instance i of a cluster (start_cluster, the match on port_config):
\* [ok, port]
instance_port(config, i) ==
    CASE config.port.kind = "auto" -> [ok |-> TRUE, port |-> config.port]
      [] config.port.kind = "range" ->
            IF i < config.port.hi - config.port.lo + 1
            THEN [ok |-> TRUE, port |-> Single(config.port.lo + i)]
            ELSE [ok |-> FALSE, port |-> NoPort]
      [] config.port.kind = "single" ->
            [ok |-> TRUE, port |-> IF i = 0 THEN config.port ELSE NoPort]
      [] OTHER -> [ok |-> TRUE, port |-> NoPort]

\* the clean-up loop of start_cluster: stop_by_id on every started instance
RECURSIVE cleanup_started(_, _, _)
cleanup_started(M, started, stop_oks) ==
    IF started = <<>>
    THEN M
    ELSE cleanup_started(stop_by_id(M, Head(started), stop_oks[Len(started)]).M,
                         Tail(started), stop_oks)

\* the instance loop of start_cluster from instance i on.  Result: [ok, err, id, M]
RECURSIVE cluster_loop(_, _, _, _, _, _)
cluster_loop(M, config, i, started, spawn_oks, stop_oks) ==
    IF i >= config.instances
    THEN [ok |-> TRUE, err |-> "", id |-> Head(started), M |-> M]
    ELSE
    LET ip == instance_port(config, i)
        instance_config ==
            [config EXCEPT !.name = InstanceName(config.name, i),
                           !.instances = 1,
                           !.env = Put(Put(@, "PM2_INSTANCE_ID", to_string(i)),
                                       "NODE_APP_INSTANCE", to_string(i)),
                           !.port = ip.port]
    IN IF ~ip.ok
       THEN [ok |-> FALSE, err |-> "NotEnoughPorts", id |-> 0, M |-> M]
       ELSE LET r == start_single_instance(M, instance_config,
                                           spawn_oks[i + 1])
            IN IF r.ok
               THEN cluster_loop(r.M, config, i + 1, Append(started, r.id), spawn_oks, stop_oks)
               ELSE [ok |-> FALSE, err |-> r.err, id |-> 0,
                     M |-> cleanup_started(r.M, started, stop_oks)]

\* a cluster start that does not look the instance names up first
start_cluster_unchecked(M, config, spawn_oks, stop_oks) ==
    cluster_loop(M, config, 0, <<>>, spawn_oks, stop_oks)

\* ProcessManager::start_cluster.  Result: [ok, err, id, M]
start_cluster(M, config, spawn_oks, stop_oks) ==
    IF \E i \in 0..(config.instances - 1) : InstanceName(config.name, i) \in DOMAIN M.name_to_id
    THEN [ok |-> FALSE, err |-> "AlreadyExists", id |-> 0, M |-> M]
    ELSE cluster_loop(M, config, 0, <<>>, spawn_oks, stop_oks)

\* ProcessManager::start.  Result: [ok, err, id, M]
start(M, config, spawn_oks, stop_oks) ==
    IF config.instances = 1
    THEN start_single_instance(M, config, spawn_oks[1])
    ELSE start_cluster(M, config, spawn_oks, stop_oks)

\* the memory test of check_all_processes: usage and limit compared in whole megabytes
memory_exceeded(p, memory_usage) ==
    /\ p.config.max_memory_restart # 0
    /\ (memory_usage \div BytesPerMB) > (p.config.max_memory_restart \div BytesPerMB)

\* the restart loop of check_all_processes: restart the scheduled records in order and
\* leave the loop after the first restart that yields a new pid
RECURSIVE restart_scheduled(_, _, _)
restart_scheduled(M, to_restart, spawn_oks) ==
    IF to_restart = <<>>
    THEN M
    ELSE LET process_id == Head(to_restart)
         IN IF process_id \notin DOMAIN M.processes
            THEN restart_scheduled(M, Tail(to_restart), spawn_oks)
            ELSE LET r == restart(M, M.processes[process_id], spawn_oks[process_id], TRUE)
                 IN IF r.ok /\ pid(r.p) # 0
                    THEN LET p2 == r.p
                         IN [r.M EXCEPT !.processes = Put(@, process_id, p2),
                                        !.disk = save_process_metadata(
                                            save_pid_file(@, p2.config.name, pid(p2)), p2)]
                    ELSE restart_scheduled([r.M EXCEPT !.processes = Put(@, process_id, r.p)],
                                           Tail(to_restart), spawn_oks)

\* the records whose pid the monitor finds: update_process_metrics reports a pid only
\* while the operating system knows the process
monitored(M) ==
    {k \in DOMAIN M.processes : pid(M.processes[k]) # 0 /\ pid(M.processes[k]) \in M.alive}

\* the records check_all_processes schedules because of their memory
memory_marked(M, memory) ==
    {k \in monitored(M) : memory_exceeded(M.processes[k], memory[k])}

\* the manager after check_status has run on every record
after_check_status(M) ==
    [M EXCEPT !.processes = [k \in DOMAIN M.processes |-> check_status(M, M.processes[k]).p]]

\* the records check_all_processes schedules because they are not running
crash_marked(M) ==
    {k \in DOMAIN M.processes :
        ~check_status(M, M.processes[k]).running /\ M.processes[k].config.autorestart}

\* ProcessManager::check_all_processes; memory is the sampled usage per record, the two
\* orders are the iteration orders of the scheduled sets.  Result: the manager
check_all_processes(M, memory, memory_order, crash_order, spawn_oks) ==
    restart_scheduled(after_check_status(M), memory_order \o crash_order, spawn_oks)

\* ProcessManager::load_process_config once the config file of `name` is parsed;
\* detected is the port detect_port_from_logs finds (0 for none).  Result: the manager
load_parsed_config(M, name, detected, config) ==
    LET process_id == NewV4(M, config.name)
        p0 == NewProcess(config)
        p1 == IF name \in DOMAIN M.disk.meta
              THEN [p0 EXCEPT !.assigned_port = M.disk.meta[name].assigned_port,
                              !.instance = IF M.disk.meta[name].instance >= 0
                                           THEN M.disk.meta[name].instance ELSE @]
              ELSE p0
        has_pid == name \in DOMAIN M.disk.pid
        running == has_pid /\ M.disk.pid[name] \in M.alive
        restored == CASE config.port.kind \in {"single", "range"} -> config.port.lo
                      [] OTHER -> p1.assigned_port
        p2 == IF running
              THEN [set_state(p1, "Online", Utc_now(M))
                        EXCEPT !.assigned_port = IF restored = 0 THEN detected ELSE restored]
              ELSE set_state(p1, "Stopped", Utc_now(M))
    IN [M EXCEPT !.allocated_ports =
                     IF running /\ config.port.kind \in {"single", "range"}
                     THEN @ \cup {config.port.lo} ELSE @,
                 !.disk = IF has_pid /\ ~running THEN remove_pid_file(@, name) ELSE @,
                 !.processes = Put(@, process_id, p2),
                 !.name_to_id = Put(@, config.name, process_id)]

\* ProcessManager::load_process_config for the config file of `name`: a file that
\* does not parse is skipped.  (read stands for the one result of parsing the file.)
load_process_config(M, name, detected) ==
    CHOOSE loaded \in
        {IF read.ok THEN load_parsed_config(M, name, detected, read.config) ELSE M :
            read \in {ProcessConfig_from_json(M.disk.cfg[name])}} : TRUE

\* ProcessManager::load_processes over the config files still to read
RECURSIVE load_processes(_, _, _)
load_processes(M, files, detected) ==
    IF files = {}
    THEN M
    ELSE LET name == CHOOSE n \in files : TRUE
         IN load_processes(load_process_config(M, name, detected[name]),
                           files \ {name}, detected)

\* ProcessManager::new over the configuration directory the previous manager left
new_manager(M, detected) ==
    load_processes([M EXCEPT !.processes = Empty, !.name_to_id = Empty,
                             !.allocated_ports = {}],
                   DOMAIN M.disk.cfg, detected)

\* every sequence that lists the elements of S once
Orders(S) == {q \in [1..Cardinality(S) -> S] : \A i, j \in 1..Cardinality(S) : q[i] = q[j] => i = j}

\* ------------------------------------------------------------------- tasks
\* tokio::sync::RwLock: the task that holds it for writing and the tasks that hold it
\* for reading
Unlocked == [writer |-> "none", readers |-> {}]

\* an RwLock that hands out write access while readers hold it
can_write_beside_readers(lock) == lock.writer = "none"

\* RwLock::write is granted when nobody holds the lock, RwLock::read when no writer does
can_write(lock) == lock.writer = "none" /\ lock.readers = {}
can_read(lock) == lock.writer = "none"

write_locked(lock, t) == [lock EXCEPT !.writer = t]
read_locked(lock, t) == [lock EXCEPT !.readers = @ \cup {t}]
write_unlocked(lock) == [lock EXCEPT !.writer = "none"]
read_unlocked(lock, t) == [lock EXCEPT !.readers = @ \ {t}]

\* the three tasks: a command (start or delete), the reconcile tick and a reader
Tasks == {"cmd", "tick", "reader"}
\* the configs the command task starts: "a" and "b", without a port or on port 1
TaskConfigs == {c \in SingleConfigs : c.port \in {NoPort, Single(1)}}

\* the first lock scope of ProcessManager::delete: under processes.write() the record
\* is removed and stopped if it runs, and its name is removed
delete_remove(M, process_id, stop_ok) ==
    LET p == M.processes[process_id]
        s == IF is_running(p) THEN stop(M, p, stop_ok) ELSE [ok |-> TRUE, p |-> p, M |-> M]
    IN [s.M EXCEPT !.processes = Drop(M.processes, process_id),
                   !.name_to_id = Drop(@, p.config.name)]

\* the rest of ProcessManager::delete: the ports of the removed record p are released
\* and its files removed
delete_release(M, p) ==
    [M EXCEPT !.allocated_ports =
                  IF p.config.port.kind # "none"
                  THEN deallocate_ports(@, p.config.port, p.assigned_port) ELSE @,
              !.disk = remove_pid_file(remove_process_config(@, p.config.name),
                                       p.config.name)]

\* the record the restart loop of check_all_processes leaves the loop with (0: none)
RECURSIVE restarted_with_pid(_, _, _)
restarted_with_pid(M, to_restart, spawn_oks) ==
    IF to_restart = <<>>
    THEN 0
    ELSE LET process_id == Head(to_restart)
         IN IF process_id \notin DOMAIN M.processes
            THEN restarted_with_pid(M, Tail(to_restart), spawn_oks)
            ELSE LET r == restart(M, M.processes[process_id], spawn_oks[process_id], TRUE)
                 IN IF r.ok /\ pid(r.p) # 0
                    THEN process_id
                    ELSE restarted_with_pid(
                             [r.M EXCEPT !.processes = Put(@, process_id, r.p)],
                             Tail(to_restart), spawn_oks)

\* ---------------------------------------------------------------- lock order
\* the tasks that call into one manager at the same time
MaxLockTasks == 2
LockTasks == {<<"t1", "t2", "t3", "t4">>[i] : i \in 1..MaxLockTasks}
\* the manager lock of web.rs and the four locks inside the manager
LockNames == {"manager", "processes", "name_to_id", "monitor", "allocated_ports"}

\* one step of an operation: lock.read().await, lock.write().await, the drop of a guard
Read(l) == <<"read", l>>
Write(l) == <<"write", l>>
Release(l) == <<"drop", l>>

\* ProcessManager::resolve_identifier: an id that is found; an id that is not found
\* and then the name; a name
resolve_identifier_locks ==
    {<<Read("processes"), Release("processes")>>,
     <<Read("processes"), Release("processes"), Read("name_to_id"), Release("name_to_id")>>,
     <<Read("name_to_id"), Release("name_to_id")>>}

\* ProcessManager::allocate_port and ProcessManager::deallocate_ports
port_table_locks == <<Write("allocated_ports"), Release("allocated_ports")>>

\* ProcessManager::list
list_locks == {<<Read("processes"), Release("processes")>>}

\* ProcessManager::check_all_processes: without a restart that left a pid, and with one
\* (drop(processes), then processes.read() for the metadata)
check_all_processes_locks ==
    {<<Write("processes"), Write("monitor"), Release("monitor"), Release("processes")>>,
     <<Write("processes"), Write("monitor"), Release("monitor"), Release("processes"),
       Read("processes"), Release("processes")>>}

\* an update_monitoring_data that takes the monitor before the records
update_monitoring_data_locks_reversed ==
    {<<Write("monitor"), Read("processes"), Release("processes"), Release("monitor")>>}

\* ProcessManager::update_monitoring_data
update_monitoring_data_locks ==
    {<<Read("processes"), Write("monitor"), Release("monitor"), Release("processes")>>}

\* ProcessManager::get_system_info
get_system_info_locks == {<<Write("monitor"), Release("monitor")>>}

\* ProcessManager::start_single_instance: the name is taken; started without and with a port
start_single_instance_locks ==
    {<<Read("name_to_id"), Release("name_to_id")>>}
    \cup {<<Read("name_to_id"), Release("name_to_id")>> \o ports
              \o <<Write("processes"), Write("name_to_id"),
                   Release("name_to_id"), Release("processes")>> :
          ports \in {<<>>, port_table_locks}}

\* ProcessManager::stop
stop_locks ==
    {found \o <<Write("processes"), Release("processes")>> : found \in resolve_identifier_locks}

\* ProcessManager::restart_with_port: without an override; with one on a record without
\* a port (allocate); with one on a record with a port (deallocate, allocate)
restart_with_port_locks ==
    {found \o <<Write("processes")>> \o ports \o <<Release("processes")>> :
        found \in resolve_identifier_locks,
        ports \in {<<>>, port_table_locks, port_table_locks \o port_table_locks}}

\* ProcessManager::delete of a record without and with a port
delete_locks ==
    {found \o <<Write("processes"), Write("name_to_id"),
                Release("name_to_id"), Release("processes")>> \o ports :
        found \in resolve_identifier_locks, ports \in {<<>>, port_table_locks}}

\* ProcessManager::load_process_config: without a pid file; with the pid of a running
\* process and a port to restore
load_process_config_locks ==
    {<<Write("processes"), Write("name_to_id"), Release("name_to_id"), Release("processes")>>,
     <<Write("monitor"), Write("allocated_ports"), Release("allocated_ports"),
       Release("monitor"),
       Write("processes"), Write("name_to_id"), Release("name_to_id"), Release("processes")>>}

\* a call through the manager lock of web.rs: manager.read().await.op(..) for &self,
\* manager.write().await.op(..) for &mut self
Through(first, programs) ==
    {<<first>> \o program \o <<Release("manager")>> : program \in programs}

Operations ==
    Through(Read("manager"), list_locks \cup check_all_processes_locks
                                 \cup update_monitoring_data_locks \cup get_system_info_locks)
    \cup Through(Write("manager"), start_single_instance_locks \cup stop_locks
                                       \cup restart_with_port_locks \cup delete_locks
                                       \cup load_process_config_locks)

\* a tokio RwLock: the holders and the queue of waiting tasks, served first come first
Free == [writer |-> "none", readers |-> {}, queue |-> <<>>]
\* a task outside any call
Idle == [program |-> <<>>, next |-> 1, queued |-> FALSE]

\* ------------------------------------------------------------ graceful shutdown
\* the poll interval and the wait after SIGKILL of graceful_shutdown, in milliseconds
POLL_INTERVAL_MS == 100
KILL_WAIT_MS == 500
\* the timeouts graceful_shutdown is called with: 0 to MaxTimeoutPolls poll intervals
MaxTimeoutPolls == 3

\* no shutdown in progress.  exists: the process is there (kill(pid, None) succeeds)
NoShutdown ==
    [at |-> "idle", timeout_ms |-> 0, elapsed |-> 0, exists |-> TRUE,
     term_sent |-> FALSE, kill_sent |-> FALSE, result |-> "none"]

\* SignalHandler::graceful_shutdown, one step from where g stands: the SIGTERM, one turn
\* of the first loop, the SIGKILL, one turn of the second loop
graceful_shutdown_step(g) ==
    CASE g.at = "term" ->
            IF g.exists
            THEN [g EXCEPT !.term_sent = TRUE, !.at = "wait", !.elapsed = 0]
            ELSE [g EXCEPT !.result = "SignalError", !.at = "done"]
      [] g.at = "wait" ->
            IF g.elapsed < g.timeout_ms
            THEN IF g.exists
                 THEN [g EXCEPT !.elapsed = @ + POLL_INTERVAL_MS]
                 ELSE [g EXCEPT !.result = "Ok", !.at = "done"]
            ELSE [g EXCEPT !.at = "kill"]
      [] g.at = "kill" ->
            IF g.exists
            THEN [g EXCEPT !.kill_sent = TRUE, !.at = "kill_wait", !.elapsed = 0]
            ELSE [g EXCEPT !.result = "SignalError", !.at = "done"]
      [] g.at = "kill_wait" ->
            IF g.elapsed < KILL_WAIT_MS
            THEN IF g.exists
                 THEN [g EXCEPT !.elapsed = @ + POLL_INTERVAL_MS]
                 ELSE [g EXCEPT !.result = "Ok", !.at = "done"]
            ELSE [g EXCEPT !.result = "SignalError", !.at = "done"]
      [] OTHER -> g

\* ------------------------------------------------------------------ event stream
\* broadcast::channel(1000) of web.rs, scaled down: the number of frames the channel keeps
ChannelCapacity == 2
\* the number of frames the monitoring task sends
MaxFrames == 5

\* no subscriber yet.  sent: the frames the monitoring task has sent (frame n is the
\* n-th), cursor: the next frame the subscriber's receiver will return, delivered: the
\* frames written to the websocket, client_open: the client has not closed the socket
NoStream ==
    [at |-> "idle", sent |-> 0, cursor |-> 1, delivered |-> <<>>, client_open |-> TRUE]

\* WebServer::monitoring_task sends SystemUpdate, then ProcessList, every two seconds
frame(n) == [kind |-> IF n % 2 = 1 THEN "SystemUpdate" ELSE "ProcessList", n |-> n]

\* broadcast::Receiver::recv on the channel: the next frame, Lagged when frames the
\* receiver has not seen were overwritten (the receiver then stands at the oldest frame
\* kept), or nothing yet
broadcast_recv(st) ==
    IF st.cursor + ChannelCapacity <= st.sent
    THEN [kind |-> "Lagged", cursor |-> st.sent - ChannelCapacity + 1]
    ELSE IF st.cursor <= st.sent
         THEN [kind |-> "Ok", cursor |-> st.cursor + 1]
         ELSE [kind |-> "Pending", cursor |-> st.cursor]

\* one turn of the send_task loop of handle_websocket:
\* while let Ok(msg) = broadcast_rx.recv().await { if sender.send(..).is_err() { break } }
send_task_turn(st, socket_ok) ==
    LET got == broadcast_recv(st) IN
    CASE got.kind = "Ok" ->
            IF socket_ok
            THEN [st EXCEPT !.cursor = got.cursor, !.delivered = Append(@, frame(st.cursor))]
            ELSE [st EXCEPT !.cursor = got.cursor, !.at = "closed"]
      [] got.kind = "Lagged" -> [st EXCEPT !.cursor = got.cursor, !.at = "closed"]
      [] OTHER -> st

\* no call in progress
NoCmd ==
    [op |-> "none", config |-> CHOOSE c \in SingleConfigs : TRUE, identifier |-> "",
     port_override |-> NoPort, spawn_ok |-> TRUE, stop_ok |-> TRUE, removed |-> NewProcess(CHOOSE c \in SingleConfigs : TRUE),
     pre |-> Empty]
NoTick == [to_restart |-> <<>>, memory |-> Empty, memory_order |-> <<>>,
           crash_order |-> <<>>, spawn_oks |-> Empty, restarted |-> 0, pre |-> Empty]

InitTasks ==
    /\ manager_lock = Unlocked
    /\ processes_lock = Unlocked
    /\ at = [t \in Tasks |-> "idle"]
    /\ cmd_op = NoCmd
    /\ tick_op = NoTick
    /\ observed = [kind |-> "none", list |-> Empty, ports |-> {}]
    /\ lock_table = [l \in LockNames |-> Free]
    /\ lock_call = [t \in LockTasks |-> Idle]
    /\ term = NoShutdown
    /\ stream = NoStream

\* ---------------------------------------------------------------- shutdown
\* a drop of a child handle that kills the child (kill_on_drop)
drop_child_killing(alive_pids, p) == alive_pids \ {p.child}

\* the drop of the tokio Child of a record: the command is built without kill_on_drop
\* and in a process group of its own, so the child stays as it is
drop_child(alive_pids, p) == alive_pids

\* the drop of the records in ids, one after the other
RECURSIVE drop_processes(_, _)
drop_processes(M, ids) ==
    IF ids = {} THEN M
    ELSE LET k == CHOOSE x \in ids : TRUE
         IN drop_processes([M EXCEPT !.alive = drop_child(@, M.processes[k]),
                                     !.processes = Drop(@, k)],
                           ids \ {k})

\* the end of the supervisor process: the ProcessManager is dropped with its records,
\* its name index and its port table (there is no impl Drop)
drop_manager(M) ==
    [drop_processes(M, DOMAIN M.processes) EXCEPT !.name_to_id = Empty,
                                                  !.allocated_ports = {}]

\* ------------------------------------------------------------- web server
\* Option<&str>: None, or Some(text)
None == [some |-> FALSE, text |-> <<>>]
Some(cs) == [some |-> TRUE, text |-> cs]

BearerPrefix == <<"B", "e", "a", "r", "e", "r", " ">>
ApiKeyPrefix == <<"A", "p", "i", "K", "e", "y", " ">>
BasicPrefix == <<"B", "a", "s", "i", "c", " ">>

\* the paths of create_router
RootPath == <<"/">>
WsPath == <<"/", "w", "s">>
ApiPaths ==
    {<<"/", "a", "p", "i", "/", "p", "r", "o", "c", "e", "s", "s", "e", "s">>,
     <<"/", "a", "p", "i", "/", "s", "y", "s", "t", "e", "m">>}
Paths == {RootPath, WsPath} \cup ApiPaths

\* the configured key and another one
GoodKey == <<"k">>
BadKey == <<"x">>
ApiKeys == {None, Some(GoodKey)}

\* the requests: a path, an Authorization header and an X-API-Key header
AuthorizationValues ==
    {None} \cup {Some(prefix \o key) : prefix \in {BearerPrefix, ApiKeyPrefix, BasicPrefix, <<>>},
                                       key \in {GoodKey, BadKey}}
XApiKeyValues == {None, Some(GoodKey), Some(BadKey)}
Requests == [path : Paths, authorization : AuthorizationValues, x_api_key : XApiKeyValues]

\* str::strip_prefix as an Option
strip_prefix_opt(cs, prefix) ==
    IF starts_with(cs, prefix) THEN Some(strip_prefix(cs, prefix)) ELSE None

\* the provided_key of auth_middleware
provided_key(req) ==
    IF req.authorization.some
    THEN LET bearer == strip_prefix_opt(req.authorization.text, BearerPrefix)
         IN IF bearer.some THEN bearer
            ELSE strip_prefix_opt(req.authorization.text, ApiKeyPrefix)
    ELSE req.x_api_key

\* WebServer::auth_middleware: "handler" for next.run(req), "401" for UNAUTHORIZED
auth_middleware(api_key, req) ==
    IF req.path = RootPath \/ starts_with(req.path, WsPath)
    THEN "handler"
    ELSE IF api_key.some /\ provided_key(req) # api_key
    THEN "401"
    ELSE "handler"

\* ------------------------------------------------------------- HealthCheck
\* const DEFAULT_RETRIES
DEFAULT_RETRIES == 3

\* HealthCheckConfig::default(): disabled, DEFAULT_RETRIES retries
HealthCheckConfig_default == [retries |-> DEFAULT_RETRIES, enabled |-> FALSE]

\* HealthStatus::default()
HealthStatus_default ==
    [state |-> "Unknown", consecutive_failures |-> 0, total_checks |-> 0,
     error_message |-> "None"]

\* HealthCheck::new(config)
HealthCheck_new(config) == [config |-> config, status |-> HealthStatus_default]

\* HealthCheck::check with `>` where the code has `>=`: the failure that reaches the
\* threshold does not yet mark the status
check_above_threshold(h, check_ok) ==
    IF ~h.config.enabled THEN h
    ELSE LET counted == [h.status EXCEPT !.total_checks = @ + 1] IN
         IF check_ok
         THEN [h EXCEPT !.status = [counted EXCEPT !.state = "Healthy",
                                                   !.consecutive_failures = 0,
                                                   !.error_message = "None"]]
         ELSE LET failed == [counted EXCEPT !.consecutive_failures = @ + 1,
                                            !.error_message = "Some"] IN
              [h EXCEPT !.status =
                  IF failed.consecutive_failures > h.config.retries
                  THEN [failed EXCEPT !.state = "Unhealthy"]
                  ELSE IF failed.state = "Unknown"
                  THEN [failed EXCEPT !.state = "Unhealthy"]
                  ELSE failed]

\* HealthCheck::check: check_ok is the outcome of perform_check
check(h, check_ok) ==
    IF ~h.config.enabled THEN h
    ELSE LET counted == [h.status EXCEPT !.total_checks = @ + 1] IN
         IF check_ok
         THEN [h EXCEPT !.status = [counted EXCEPT !.state = "Healthy",
                                                   !.consecutive_failures = 0,
                                                   !.error_message = "None"]]
         ELSE LET failed == [counted EXCEPT !.consecutive_failures = @ + 1,
                                            !.error_message = "Some"] IN
              [h EXCEPT !.status =
                  IF failed.consecutive_failures >= h.config.retries
                  THEN [failed EXCEPT !.state = "Unhealthy"]
                  ELSE IF failed.state = "Unknown"
                  THEN [failed EXCEPT !.state = "Unhealthy"]
                  ELSE failed]

\* ------------------------------------------------------------------ actions
InitStore ==
    /\ processes = Empty
    /\ name_to_id = Empty
    /\ allocated_ports = {}
    /\ alive = {}
    /\ nextPid = 1
    /\ disk = [cfg |-> Empty, meta |-> Empty, pid |-> Empty]

\* every child exits with code 0
ExitsWithZero == [p \in 1..(MaxPid + 1) |-> 0]

InitManager ==
    /\ InitStore
    /\ pid_max = MaxPid
    /\ exit_status = ExitsWithZero

\* WebServer::new: no api key, no request yet
NoRequest == [path |-> <<>>, authorization |-> None, x_api_key |-> None]
WebServer_new(api_key) == [api_key |-> api_key, request |-> NoRequest, response |-> "none"]

InitAux ==
    /\ health = HealthCheck_new(HealthCheckConfig_default)
    /\ port_io = [spec |-> NoPort, text |-> <<>>, parsed |-> NotParsed]
    /\ web = WebServer_new(None)
    /\ shutdown_requested = FALSE
    /\ supervisor_up = TRUE
    /\ InitTasks

Init ==
    /\ InitManager
    /\ InitAux

\* the outcomes of the spawns of a start of k instances: all succeed (fail_at = 0), or
\* the fail_at-th spawn is the first to fail
SpawnOks(k, fail_at) == [i \in 1..k |-> i # fail_at]

\* the bound on restart counts allows one more restart of each record of ids
RestartAllowed(ids) ==
    \A k \in ids \cap DOMAIN processes : processes[k].restarts < MaxRestartCount

\* start(config) under every outcome of its spawns and of the clean-up stops (which run
\* only when a later instance fails)
Start ==
    \E config \in SingleConfigs : \E fail_at \in 0..MaxInstances : \E stop_ok \in BOOLEAN :
        /\ fail_at <= config.instances
        /\ fail_at > 1 \/ stop_ok
        /\ Unpack(start(Pack, config, SpawnOks(config.instances, fail_at),
                        [i \in 1..config.instances |-> stop_ok]).M)

StartCluster ==
    \E config \in ClusterConfigs \cup ShortRangeConfigs : \E fail_at \in 0..MaxInstances : \E stop_ok \in BOOLEAN :
        /\ fail_at <= config.instances
        /\ fail_at > 1 \/ stop_ok
        /\ Unpack(start(Pack, config, SpawnOks(config.instances, fail_at),
                        [i \in 1..config.instances |-> stop_ok]).M)

StartAlias ==
    \E config \in AliasConfigs : \E fail_at \in 0..MaxInstances :
        /\ fail_at <= config.instances
        /\ Unpack(start(Pack, config, SpawnOks(config.instances, fail_at),
                        [i \in 1..config.instances |-> TRUE]).M)

Stop ==
    \E identifier \in Identifiers(Pack) : \E stop_ok \in BOOLEAN :
        Unpack(manager_stop(Pack, identifier, stop_ok).M)

Restart ==
    \E identifier \in Identifiers(Pack) : \E port_override \in PortOverrides :
    \E spawn_ok \in BOOLEAN :
        /\ RestartAllowed({resolve_identifier(Pack, identifier)})
        /\ Unpack(restart_with_port(Pack, identifier, port_override, spawn_ok, TRUE).M)

Delete ==
    \E identifier \in Identifiers(Pack) : \E stop_ok \in BOOLEAN :
        Unpack(delete(Pack, identifier, stop_ok).M)

DeleteAll ==
    \E stop_oks \in [{k \in DOMAIN processes : is_running(processes[k])} -> BOOLEAN] :
        Unpack(delete_all(Pack, stop_oks).M)

DeleteByStatus ==
    \E status_str \in StatusStrings :
    \E stop_oks \in [{k \in DOMAIN processes : is_running(processes[k])} -> BOOLEAN] :
        Unpack(delete_by_status(Pack, status_str, stop_oks).M)

CheckAllProcesses ==
    \E memory \in [monitored(Pack) -> MemorySamples] :
    \E memory_order \in Orders(memory_marked(Pack, memory)) :
    \E crash_order \in Orders(crash_marked(Pack)) :
    \E spawn_oks \in [memory_marked(Pack, memory) \cup crash_marked(Pack) -> BOOLEAN] :
        /\ RestartAllowed(memory_marked(Pack, memory) \cup crash_marked(Pack))
        /\ Unpack(check_all_processes(Pack, memory, memory_order, crash_order, spawn_oks))

Recover ==
    \E detected \in [DOMAIN disk.cfg -> {0, MaxPort}] :
        Unpack(new_manager(Pack, detected))

ChildExit ==
    \E p \in alive :
        /\ alive' = alive \ {p}
        /\ UNCHANGED <<processes, name_to_id, allocated_ports, nextPid, disk, pid_max, exit_status>>
        /\ UNCHANGED aux

Next ==
    \/ Start
    \/ Stop
    \/ Restart
    \/ Delete
    \/ DeleteAll
    \/ DeleteByStatus
    \/ CheckAllProcesses
    \/ Recover
    \/ ChildExit

Spec == Init /\ [][Next]_vars

NextCluster ==
    \/ StartCluster
    \/ Stop
    \/ Restart
    \/ Delete
    \/ DeleteAll
    \/ DeleteByStatus
    \/ CheckAllProcesses
    \/ Recover
    \/ ChildExit

SpecCluster == Init /\ [][NextCluster]_vars

\* the operations without startup recovery: start, stop, restart, the deletes, the
\* reconcile tick and the exit of a child
NextOps ==
    \/ Start
    \/ Stop
    \/ Restart
    \/ Delete
    \/ DeleteAll
    \/ DeleteByStatus
    \/ CheckAllProcesses
    \/ ChildExit

SpecOps == Init /\ [][NextOps]_vars

\* the operations on "a" and on a record whose name spells the id of "a"
NextAlias ==
    \/ StartAlias
    \/ Stop
    \/ Restart
    \/ Delete
    \/ DeleteAll
    \/ DeleteByStatus
    \/ CheckAllProcesses
    \/ Recover
    \/ ChildExit

SpecAlias == Init /\ [][NextAlias]_vars

StartPersist ==
    \E config \in PersistConfigs : \E fail_at \in 0..1 :
        /\ config.instances = 1
        /\ Unpack(start(Pack, config, SpawnOks(1, fail_at), <<TRUE>>).M)

\* a start of one instance during which a persistence write fails
StartWriteFailure ==
    \E config \in SingleConfigs : \E spawn_ok \in BOOLEAN : \E write_fail \in 1..3 :
        /\ config.instances = 1
        /\ Unpack(start_single_instance_io(Pack, config, spawn_ok, write_fail).M)

\* the operations that write and read the configuration directory, with failing writes
NextPersist ==
    \/ StartPersist
    \/ StartWriteFailure
    \/ Stop
    \/ Recover
    \/ ChildExit

SpecPersist == Init /\ [][NextPersist]_vars

\* starts, exits of children and reconcile ticks on a system that has a pid left for a
\* restart when every record has a child
InitTick ==
    /\ InitStore
    /\ pid_max = MaxPid + 1
    /\ exit_status = ExitsWithZero
    /\ InitAux

NextTick ==
    \/ Start
    \/ CheckAllProcesses
    \/ ChildExit

SpecTick == InitTick /\ [][NextTick]_vars

\* the same supervisor over children that end with any exit code, or with none
ExitCodes == {-1, 0, 1}

InitLiveness ==
    /\ InitStore
    /\ pid_max = MaxPid + 1
    /\ exit_status \in [1..(MaxPid + 1) -> ExitCodes]
    /\ InitAux

NextLiveness ==
    \/ Start
    \/ CheckAllProcesses
    \/ ChildExit

SpecLiveness == InitLiveness /\ [][NextLiveness]_vars

\* the supervisor over records whose configuration carries a health check, enabled or not
InitSupervise ==
    /\ InitStore
    /\ pid_max = MaxPid + 1
    /\ exit_status = ExitsWithZero
    /\ health \in {HealthCheck_new([HealthCheckConfig_default EXCEPT !.enabled = e]) :
                        e \in BOOLEAN}
    /\ port_io = [spec |-> NoPort, text |-> <<>>, parsed |-> NotParsed]
    /\ web = WebServer_new(None)
    /\ shutdown_requested = FALSE
    /\ supervisor_up = TRUE
    /\ InitTasks

NextSupervise ==
    \/ Start
    \/ CheckAllProcesses
    \/ ChildExit

SpecSupervise == InitSupervise /\ [][NextSupervise]_vars

\* a health check of any configuration, run again and again with either outcome
InitHealth ==
    /\ InitManager
    /\ port_io = [spec |-> NoPort, text |-> <<>>, parsed |-> NotParsed]
    /\ web = WebServer_new(None)
    /\ shutdown_requested = FALSE
    /\ supervisor_up = TRUE
    /\ InitTasks
    /\ health \in {HealthCheck_new([retries |-> r, enabled |-> e]) :
                        r \in 0..MaxRetries, e \in BOOLEAN}

Check ==
    \E check_ok \in BOOLEAN :
        /\ health.status.total_checks < MaxChecks
        /\ health' = check(health, check_ok)
        /\ UNCHANGED <<manager_vars, port_io, web, shutdown_requested, supervisor_up, tasks>>

NextHealth ==
    \/ Check

SpecHealth == InitHealth /\ [][NextHealth]_vars

\* a port setting is written with Display and the text is read with PortConfig::parse
InitPort ==
    /\ InitManager
    /\ health = HealthCheck_new(HealthCheckConfig_default)
    /\ web = WebServer_new(None)
    /\ shutdown_requested = FALSE
    /\ supervisor_up = TRUE
    /\ InitTasks
    /\ port_io \in {[spec |-> pc, text |-> <<>>, parsed |-> NotParsed] : pc \in OrderedPortSpecs}

FormatPort ==
    /\ port_io.text = <<>>
    /\ port_io' = [port_io EXCEPT !.text = PortConfig_fmt(port_io.spec)]
    /\ UNCHANGED <<manager_vars, health, web, shutdown_requested, supervisor_up, tasks>>

ParsePort ==
    /\ port_io.text # <<>>
    /\ port_io.parsed = NotParsed
    /\ port_io' = [port_io EXCEPT !.parsed = PortConfig_parse(port_io.text)]
    /\ UNCHANGED <<manager_vars, health, web, shutdown_requested, supervisor_up, tasks>>

NextPort ==
    \/ FormatPort
    \/ ParsePort

SpecPort == InitPort /\ [][NextPort]_vars

\* ---- the command task: manager.write().await.start(config) / .stop(identifier) /
\* .restart(identifier) / .delete(identifier)
rest == <<health, port_io, web, shutdown_requested, supervisor_up, extra>>

CmdBegin ==
    \E op \in {"start", "stop", "restart", "delete"} : \E config \in TaskConfigs :
        /\ at["cmd"] = "idle"
        /\ can_write(manager_lock)
        /\ op = "restart" => RestartAllowed({resolve_identifier(Pack, config.name)})
        /\ manager_lock' = write_locked(manager_lock, "cmd")
        /\ cmd_op' = [NoCmd EXCEPT !.op = op, !.config = config,
                                   !.identifier = config.name, !.pre = Pack]
        /\ at' = [at EXCEPT !["cmd"] = op]
        /\ UNCHANGED <<manager_vars, processes_lock, tick_op, observed, rest>>

\* start_single_instance up to the port allocation
CmdStartAllocate ==
    /\ at["cmd"] = "start"
    /\ LET config == cmd_op.config
           a == allocate_port(allocated_ports, config.port)
       IN IF config.name \in DOMAIN name_to_id \/ (config.port.kind # "none" /\ ~a.ok)
          THEN /\ at' = [at EXCEPT !["cmd"] = "done"]
               /\ UNCHANGED manager_vars
          ELSE /\ at' = [at EXCEPT !["cmd"] = "start_spawn"]
               /\ allocated_ports' = IF config.port.kind # "none" THEN a.ports ELSE allocated_ports
               /\ UNCHANGED <<processes, name_to_id, alive, nextPid, disk, pid_max, exit_status>>
    /\ UNCHANGED <<manager_lock, processes_lock, cmd_op, tick_op, observed, rest>>

\* start_single_instance from the spawn to the insertion under processes.write()
\* (the function is applied to the port table it was called on, so that it arrives
\* here with the port CmdStartAllocate took)
CmdStartInsert ==
    \E spawn_ok \in BOOLEAN :
        /\ at["cmd"] = "start_spawn"
        /\ can_write(processes_lock)
        /\ UnpackManager(start_single_instance(
                             [Pack EXCEPT !.allocated_ports = cmd_op.pre.allocated_ports],
                             cmd_op.config, spawn_ok).M)
        /\ cmd_op' = [cmd_op EXCEPT !.spawn_ok = spawn_ok]
        /\ at' = [at EXCEPT !["cmd"] = "done"]
        /\ UNCHANGED <<manager_lock, processes_lock, tick_op, observed, rest>>

\* stop: the record is stopped under processes.write(), the pid file removed after it
CmdStop ==
    \E stop_ok \in BOOLEAN :
        /\ at["cmd"] = "stop"
        /\ can_write(processes_lock)
        /\ UnpackManager(manager_stop(Pack, cmd_op.identifier, stop_ok).M)
        /\ cmd_op' = [cmd_op EXCEPT !.stop_ok = stop_ok]
        /\ at' = [at EXCEPT !["cmd"] = "done"]
        /\ UNCHANGED <<manager_lock, processes_lock, tick_op, observed, rest>>

\* restart_with_port: the ports are exchanged and the record restarted under
\* processes.write()
CmdRestart ==
    \E port_override \in PortOverrides : \E spawn_ok \in BOOLEAN :
        /\ at["cmd"] = "restart"
        /\ can_write(processes_lock)
        /\ UnpackManager(restart_with_port(Pack, cmd_op.identifier, port_override,
                                           spawn_ok, TRUE).M)
        /\ cmd_op' = [cmd_op EXCEPT !.port_override = port_override, !.spawn_ok = spawn_ok]
        /\ at' = [at EXCEPT !["cmd"] = "done"]
        /\ UNCHANGED <<manager_lock, processes_lock, tick_op, observed, rest>>

\* the first lock scope of delete
CmdDeleteRemove ==
    \E stop_ok \in BOOLEAN :
        /\ at["cmd"] = "delete"
        /\ can_write(processes_lock)
        /\ LET process_id == resolve_identifier(Pack, cmd_op.identifier)
           IN IF process_id \in DOMAIN processes
              THEN /\ UnpackManager(delete_remove(Pack, process_id, stop_ok))
                   /\ cmd_op' = [cmd_op EXCEPT !.removed = processes[process_id],
                                               !.stop_ok = stop_ok]
                   /\ at' = [at EXCEPT !["cmd"] = "delete_release"]
              ELSE /\ stop_ok
                   /\ UNCHANGED <<manager_vars, cmd_op>>
                   /\ at' = [at EXCEPT !["cmd"] = "done"]
        /\ UNCHANGED <<manager_lock, processes_lock, tick_op, observed, rest>>

\* the rest of delete
CmdDeleteRelease ==
    /\ at["cmd"] = "delete_release"
    /\ UnpackManager(delete_release(Pack, cmd_op.removed))
    /\ at' = [at EXCEPT !["cmd"] = "done"]
    /\ UNCHANGED <<manager_lock, processes_lock, cmd_op, tick_op, observed, rest>>

\* the write guard of the manager is dropped
CmdEnd ==
    /\ at["cmd"] = "done"
    /\ manager_lock' = write_unlocked(manager_lock)
    /\ cmd_op' = NoCmd
    /\ at' = [at EXCEPT !["cmd"] = "idle"]
    /\ UNCHANGED <<manager_vars, processes_lock, tick_op, observed, rest>>

\* ---- the reconcile task: manager.read().await.check_all_processes()
TickBegin ==
    /\ at["tick"] = "idle"
    /\ can_read(manager_lock)
    /\ manager_lock' = read_locked(manager_lock, "tick")
    /\ at' = [at EXCEPT !["tick"] = "lock"]
    /\ UNCHANGED <<manager_vars, processes_lock, cmd_op, tick_op, observed, rest>>

\* let mut processes = self.processes.write().await
TickLock ==
    /\ at["tick"] = "lock"
    /\ can_write(processes_lock)
    /\ processes_lock' = write_locked(processes_lock, "tick")
    /\ at' = [at EXCEPT !["tick"] = "check"]
    /\ UNCHANGED <<manager_vars, manager_lock, cmd_op, tick_op, observed, rest>>

\* the memory test and check_status on every record
TickCheck ==
    \E memory \in [monitored(Pack) -> MemorySamples] :
    \E memory_order \in Orders(memory_marked(Pack, memory)) :
    \E crash_order \in Orders(crash_marked(Pack)) :
    \E spawn_oks \in [memory_marked(Pack, memory) \cup crash_marked(Pack) -> BOOLEAN] :
        /\ at["tick"] = "check"
        /\ RestartAllowed(memory_marked(Pack, memory) \cup crash_marked(Pack))
        /\ tick_op' = [NoTick EXCEPT !.to_restart = memory_order \o crash_order,
                                     !.memory = memory, !.memory_order = memory_order,
                                     !.crash_order = crash_order,
                                     !.spawn_oks = spawn_oks, !.pre = Pack]
        /\ processes' = after_check_status(Pack).processes
        /\ at' = [at EXCEPT !["tick"] = "restart"]
        /\ UNCHANGED <<name_to_id, allocated_ports, alive, nextPid, disk, pid_max, exit_status>>
        /\ UNCHANGED <<manager_lock, processes_lock, cmd_op, observed, rest>>

\* the restart loop, up to drop(processes) or the end of the function
TickRestart ==
    /\ at["tick"] = "restart"
    /\ LET R == restart_scheduled(Pack, tick_op.to_restart, tick_op.spawn_oks)
           k == restarted_with_pid(Pack, tick_op.to_restart, tick_op.spawn_oks)
       IN /\ UnpackManager([R EXCEPT !.disk = disk])
          /\ tick_op' = [tick_op EXCEPT !.restarted = k]
          /\ at' = [at EXCEPT !["tick"] = IF k # 0 THEN "save_pid" ELSE "done"]
    /\ processes_lock' = write_unlocked(processes_lock)
    /\ UNCHANGED <<manager_lock, cmd_op, observed, rest>>

\* self.save_pid_file after the lock was dropped
TickSavePid ==
    /\ at["tick"] = "save_pid"
    /\ disk' = IF tick_op.restarted \in DOMAIN processes
               THEN save_pid_file(disk, processes[tick_op.restarted].config.name,
                                  pid(processes[tick_op.restarted]))
               ELSE disk
    /\ at' = [at EXCEPT !["tick"] = "save_meta"]
    /\ UNCHANGED <<processes, name_to_id, allocated_ports, alive, nextPid, pid_max, exit_status>>
    /\ UNCHANGED <<manager_lock, processes_lock, cmd_op, tick_op, observed, rest>>

\* self.processes.read() and save_process_metadata
TickSaveMeta ==
    /\ at["tick"] = "save_meta"
    /\ can_read(processes_lock)
    /\ disk' = IF tick_op.restarted \in DOMAIN processes
               THEN save_process_metadata(disk, processes[tick_op.restarted])
               ELSE disk
    /\ at' = [at EXCEPT !["tick"] = "done"]
    /\ UNCHANGED <<processes, name_to_id, allocated_ports, alive, nextPid, pid_max, exit_status>>
    /\ UNCHANGED <<manager_lock, processes_lock, cmd_op, tick_op, observed, rest>>

TickEnd ==
    /\ at["tick"] = "done"
    /\ manager_lock' = read_unlocked(manager_lock, "tick")
    /\ tick_op' = NoTick
    /\ at' = [at EXCEPT !["tick"] = "idle"]
    /\ UNCHANGED <<manager_vars, processes_lock, cmd_op, observed, rest>>

\* ---- the reading task: manager.read().await.list() / .get_allocated_ports()
ReadBegin ==
    /\ at["reader"] = "idle"
    /\ can_read(manager_lock)
    /\ manager_lock' = read_locked(manager_lock, "reader")
    /\ at' = [at EXCEPT !["reader"] = "read"]
    /\ UNCHANGED <<manager_vars, processes_lock, cmd_op, tick_op, observed, rest>>

\* list: the states of the records under processes.read()
ReadList ==
    /\ at["reader"] = "read"
    /\ can_read(processes_lock)
    /\ observed' = [kind |-> "list",
                    list |-> [k \in DOMAIN processes |-> processes[k].state], ports |-> {}]
    /\ at' = [at EXCEPT !["reader"] = "done"]
    /\ UNCHANGED <<manager_vars, manager_lock, processes_lock, cmd_op, tick_op, rest>>

\* get_allocated_ports under allocated_ports.read()
ReadPorts ==
    /\ at["reader"] = "read"
    /\ observed' = [kind |-> "ports", list |-> Empty, ports |-> allocated_ports]
    /\ at' = [at EXCEPT !["reader"] = "done"]
    /\ UNCHANGED <<manager_vars, manager_lock, processes_lock, cmd_op, tick_op, rest>>

NothingObserved == [kind |-> "none", list |-> Empty, ports |-> {}]

\* the read guard of the manager is dropped and the answer handed over
ReadEnd ==
    /\ at["reader"] = "done"
    /\ manager_lock' = read_unlocked(manager_lock, "reader")
    /\ observed' = NothingObserved
    /\ at' = [at EXCEPT !["reader"] = "idle"]
    /\ UNCHANGED <<manager_vars, processes_lock, cmd_op, tick_op, rest>>

\* the three tasks and the exits of children
NextTasks ==
    \/ CmdBegin
    \/ CmdStartAllocate
    \/ CmdStartInsert
    \/ CmdStop
    \/ CmdRestart
    \/ CmdDeleteRemove
    \/ CmdDeleteRelease
    \/ CmdEnd
    \/ TickBegin
    \/ TickLock
    \/ TickCheck
    \/ TickRestart
    \/ TickSavePid
    \/ TickSaveMeta
    \/ TickEnd
    \/ ReadBegin
    \/ ReadList
    \/ ReadPorts
    \/ ReadEnd
    \/ ChildExit

SpecTasks == Init /\ [][NextTasks]_vars

\* ---- a graceful shutdown of a process that is there when the call is made
beside_term == <<manager_vars, health, port_io, web, shutdown_requested, supervisor_up,
                 manager_lock, processes_lock, at, cmd_op, tick_op, observed,
                 lock_table, lock_call, stream>>

GracefulShutdown ==
    \E polls \in 0..MaxTimeoutPolls :
        /\ term.at \in {"idle", "done"}
        /\ term' = [NoShutdown EXCEPT !.at = "term", !.timeout_ms = polls * POLL_INTERVAL_MS]
        /\ UNCHANGED beside_term

ShutdownStep ==
    /\ term.at \in {"term", "wait", "kill", "kill_wait"}
    /\ term' = graceful_shutdown_step(term)
    /\ UNCHANGED beside_term

\* the process ends, because of a signal or by itself, at any moment of the call
ProcessExits ==
    /\ term.at \in {"term", "wait", "kill", "kill_wait"}
    /\ term.exists
    /\ term' = [term EXCEPT !.exists = FALSE]
    /\ UNCHANGED beside_term

NextTerminate ==
    \/ GracefulShutdown
    \/ ShutdownStep
    \/ ProcessExits

SpecTerminate == Init /\ [][NextTerminate]_vars

\* ---- the event stream: the monitoring task sends frames, one websocket client
\* subscribes and is sent what its receiver returns
beside_stream == <<manager_vars, health, port_io, web, shutdown_requested, supervisor_up,
                   manager_lock, processes_lock, at, cmd_op, tick_op, observed,
                   lock_table, lock_call, term>>

\* monitoring_task: broadcast_tx.send(..)
Produce ==
    /\ stream.sent < MaxFrames
    /\ stream' = [stream EXCEPT !.sent = @ + 1]
    /\ UNCHANGED beside_stream

\* handle_websocket: broadcast_tx.subscribe()
Subscribe ==
    /\ stream.at = "idle"
    /\ stream' = [stream EXCEPT !.at = "subscribed", !.cursor = stream.sent + 1]
    /\ UNCHANGED beside_stream

\* handle_websocket: the initial ProcessList frame (frame 0 is the list read directly)
SendInitial ==
    /\ stream.at = "subscribed"
    /\ stream' = [stream EXCEPT !.at = "streaming",
                                !.delivered = <<[kind |-> "ProcessList", n |-> 0]>>]
    /\ UNCHANGED beside_stream

\* send_task: one turn of the loop; the write to the socket fails once the client is gone
Forward ==
    /\ stream.at = "streaming"
    /\ broadcast_recv(stream).kind # "Pending"
    /\ stream' = send_task_turn(stream, stream.client_open)
    /\ UNCHANGED beside_stream

\* the client closes the socket
ClientCloses ==
    /\ stream.at = "streaming"
    /\ stream.client_open
    /\ stream' = [stream EXCEPT !.client_open = FALSE]
    /\ UNCHANGED beside_stream

NextStream ==
    \/ Produce
    \/ Subscribe
    \/ SendInitial
    \/ Forward
    \/ ClientCloses

SpecStream == Init /\ [][NextStream]_vars

\* ---- the locks alone: any three calls at a time, each taking and dropping its locks
\* in the order of its code
beside == <<manager_vars, health, port_io, web, shutdown_requested, supervisor_up,
            manager_lock, processes_lock, at, cmd_op, tick_op, observed>>

Busy(t) == lock_call[t].program # <<>>
Returning(t) == Busy(t) /\ lock_call[t].next > Len(lock_call[t].program)
NextStep(t) == lock_call[t].program[lock_call[t].next]
Stepped(t) == [lock_call EXCEPT ![t].next = @ + 1, ![t].queued = FALSE]

\* a task enters an operation
Call(t) ==
    \E program \in Operations :
        /\ ~Busy(t)
        /\ lock_call' = [lock_call EXCEPT ![t] = [program |-> program, next |-> 1,
                                                  queued |-> FALSE]]
        /\ UNCHANGED <<beside, lock_table, term, stream>>

\* lock.read() / lock.write(): the task joins the queue of the lock
Request(t) ==
    /\ Busy(t) /\ ~Returning(t)
    /\ NextStep(t)[1] \in {"read", "write"}
    /\ ~lock_call[t].queued
    /\ lock_table' = [lock_table EXCEPT ![NextStep(t)[2]].queue = Append(@, <<t, NextStep(t)[1]>>)]
    /\ lock_call' = [lock_call EXCEPT ![t].queued = TRUE]
    /\ UNCHANGED <<beside, term, stream>>

\* the first task of the queue can be given the lock
Grantable(t) ==
    /\ Busy(t) /\ lock_call[t].queued
    /\ Head(lock_table[NextStep(t)[2]].queue)[1] = t
    /\ IF NextStep(t)[1] = "write"
       THEN can_write(lock_table[NextStep(t)[2]])
       ELSE can_read(lock_table[NextStep(t)[2]])

\* .await returns the guard
Grant(t) ==
    /\ Grantable(t)
    /\ lock_table' = [lock_table EXCEPT ![NextStep(t)[2]] =
                          [(IF NextStep(t)[1] = "write"
                            THEN write_locked(@, t) ELSE read_locked(@, t))
                              EXCEPT !.queue = Tail(@)]]
    /\ lock_call' = Stepped(t)
    /\ UNCHANGED <<beside, term, stream>>

\* a guard is dropped
Unlock(t) ==
    /\ Busy(t) /\ ~Returning(t)
    /\ NextStep(t)[1] = "drop"
    /\ lock_table' = [lock_table EXCEPT ![NextStep(t)[2]] =
                          IF @.writer = t THEN write_unlocked(@) ELSE read_unlocked(@, t)]
    /\ lock_call' = Stepped(t)
    /\ UNCHANGED <<beside, term, stream>>

\* the operation returns
Return(t) ==
    /\ Returning(t)
    /\ lock_call' = [lock_call EXCEPT ![t] = Idle]
    /\ UNCHANGED <<beside, lock_table, term, stream>>

Advance(t) == Request(t) \/ Grant(t) \/ Unlock(t) \/ Return(t)

NextLocks ==
    \/ \E t \in LockTasks : Call(t)
    \/ \E t \in LockTasks : Request(t)
    \/ \E t \in LockTasks : Grant(t)
    \/ \E t \in LockTasks : Unlock(t)
    \/ \E t \in LockTasks : Return(t)

SpecLocks == Init /\ [][NextLocks]_vars

\* the runtime polls every task that can make progress
SpecLocksFair == SpecLocks /\ \A t \in LockTasks : WF_vars(Advance(t))

\* the task of SignalHandler::setup_handlers receives SIGTERM or SIGINT
ReceiveSignal ==
    /\ supervisor_up
    /\ ~shutdown_requested
    /\ shutdown_requested' = TRUE
    /\ UNCHANGED <<manager_vars, health, port_io, web, supervisor_up, tasks>>

\* the supervisor process ends
DropManager ==
    /\ supervisor_up
    /\ supervisor_up' = FALSE
    /\ UnpackManager(drop_manager(Pack))
    /\ UNCHANGED <<health, port_io, web, shutdown_requested, tasks>>

\* the next supervisor process starts: SignalHandler::new and ProcessManager::new
StartSupervisor ==
    \E detected \in [DOMAIN disk.cfg -> {0, MaxPort}] :
        /\ ~supervisor_up
        /\ supervisor_up' = TRUE
        /\ shutdown_requested' = FALSE
        /\ UnpackManager(new_manager(Pack, detected))
        /\ UNCHANGED <<health, port_io, web, tasks>>

\* start and stop while the supervisor runs
StartWhileUp ==
    /\ supervisor_up
    /\ Start

StopWhileUp ==
    /\ supervisor_up
    /\ Stop

\* starts and stops, a shutdown by signal or by the end of the supervisor, and the start
\* of the next supervisor
NextShutdown ==
    \/ StartWhileUp
    \/ StopWhileUp
    \/ ChildExit
    \/ ReceiveSignal
    \/ DropManager
    \/ StartSupervisor

SpecShutdown == Init /\ [][NextShutdown]_vars

\* a web server with or without an api key answers requests
InitWeb ==
    /\ InitManager
    /\ health = HealthCheck_new(HealthCheckConfig_default)
    /\ port_io = [spec |-> NoPort, text |-> <<>>, parsed |-> NotParsed]
    /\ web \in {WebServer_new(api_key) : api_key \in ApiKeys}
    /\ shutdown_requested = FALSE
    /\ supervisor_up = TRUE
    /\ InitTasks

HandleRequest ==
    \E req \in Requests :
        /\ web' = [web EXCEPT !.request = req,
                              !.response = auth_middleware(web.api_key, req)]
        /\ UNCHANGED <<manager_vars, health, port_io, shutdown_requested, supervisor_up, tasks>>

NextWeb ==
    \/ HandleRequest

SpecWeb == InitWeb /\ [][NextWeb]_vars

\* ------------------------------------------------------------------ claims
\* the record an identifier resolves to exists
Resolves(identifier) == resolve_identifier(Pack, identifier) \in DOMAIN processes
\* the record an identifier resolves to
Target(identifier) == processes[resolve_identifier(Pack, identifier)]

\* C1: after any sequence of start, stop, restart (with or without a port override),
\* delete and reconcile ticks, no two existing records have the same assigned_port.
C1_PortExclusivity ==
    \A k1, k2 \in DOMAIN processes :
        (k1 # k2 /\ processes[k1].assigned_port # 0)
            => processes[k1].assigned_port # processes[k2].assigned_port

\* C2: the name index is a bijection with the stored records: every stored record's
\* name maps to that record's id, every index entry points to a stored record with that
\* name, and no two stored records share a name.
C2_NameIndexBijection ==
    /\ \A k \in DOMAIN processes :
          /\ processes[k].config.name \in DOMAIN name_to_id
          /\ name_to_id[processes[k].config.name] = k
    /\ \A n \in DOMAIN name_to_id :
          /\ name_to_id[n] \in DOMAIN processes
          /\ processes[name_to_id[n]].config.name = n
    /\ \A k1, k2 \in DOMAIN processes :
          k1 # k2 => processes[k1].config.name # processes[k2].config.name

\* two records are stored under two index entries
C2_Witness ==
    /\ Cardinality(DOMAIN processes) = 2
    /\ Cardinality(DOMAIN name_to_id) = 2
    /\ \E k \in DOMAIN processes : processes[k].state = "Stopped"

\* C3: in every reachable state a record whose state is Online has a child
\* handle and a non-null pid, and a record whose state is Stopped has neither.
C3_StateConsistency ==
    \A k \in DOMAIN processes :
        /\ processes[k].state = "Online"
              => (processes[k].child # 0 /\ pid(processes[k]) # 0)
        /\ processes[k].state = "Stopped"
              => (processes[k].child = 0 /\ pid(processes[k]) = 0)

\* C4: restart() of an Online record stops the current child before it starts the new
\* one: after a successful restart the previous child is no longer alive, so the record
\* never owns more than one live child.
C4_RestartStopsPreviousChild ==
    \A k \in DOMAIN processes :
        (processes[k].state = "Online" /\ processes[k].child \in alive)
            => \A spawn_ok, stop_ok \in BOOLEAN :
                   LET r == restart(Pack, processes[k], spawn_ok, stop_ok)
                   IN r.ok => processes[k].child \notin r.M.alive

\* C5: restart_count never decreases, and a reconcile tick in which no record exceeds
\* its memory limit raises the restart_count of a record that was Online with a child
\* only if, once the child's exit is observed, the record has autorestart, is Stopped
\* and has a restart_count below max_restarts; the count never rises above max_restarts.
C5_ReconcileRespectsMaxRestarts ==
    \A memory \in [monitored(Pack) -> MemorySamples] :
    \A crash_order \in Orders(crash_marked(Pack)) :
    \A spawn_oks \in [crash_marked(Pack) -> BOOLEAN] :
        LET M2 == check_all_processes(Pack, memory, <<>>, crash_order, spawn_oks)
        IN \A k \in DOMAIN processes :
               (/\ memory_marked(Pack, memory) = {}
                /\ processes[k].state = "Online"
                /\ processes[k].child # 0)
                   => /\ k \in DOMAIN M2.processes
                      /\ M2.processes[k].restarts >= processes[k].restarts
                      /\ M2.processes[k].restarts > processes[k].restarts
                            => /\ should_auto_restart(check_status(Pack, processes[k]).p)
                               /\ M2.processes[k].restarts
                                      <= processes[k].config.max_restarts

\* C6: each record with a port setting that is not Stopped and has an assigned_port has
\* that port in the allocated-port table.
C6_AssignedPortAllocated ==
    \A k \in DOMAIN processes :
        (/\ processes[k].state # "Stopped"
         /\ processes[k].config.port.kind # "none"
         /\ processes[k].assigned_port # 0)
            => processes[k].assigned_port \in allocated_ports

\* C7: cluster start is all-or-nothing: when the start of an instance fails, start
\* returns the error, no instance of the cluster is left running, and the records, the
\* name index and the port table are the same as before the call.
C7_ClusterAllOrNothing ==
    \A config \in ClusterConfigs : \A fail_at \in 0..config.instances :
    \A stop_ok \in BOOLEAN :
        LET r == start(Pack, config, SpawnOks(config.instances, fail_at),
                       [i \in 1..config.instances |-> stop_ok])
        IN (config.instances > 1 /\ ~r.ok)
               => /\ r.M.processes = processes
                  /\ r.M.name_to_id = name_to_id
                  /\ r.M.allocated_ports = allocated_ports
                  /\ r.M.alive = alive

\* C8: if spawning the child fails during start(config) for a config with a port spec,
\* no record is added and the allocated-port table equals the table before the start.
C8_SpawnFailureReleasesPorts ==
    \A config \in SingleConfigs :
        LET r == start(Pack, config, SpawnOks(1, 1), [i \in 1..1 |-> TRUE])
        IN (config.port.kind # "none" /\ r.err = "StartFailed")
               => /\ r.M.processes = processes
                  /\ r.M.name_to_id = name_to_id
                  /\ r.M.allocated_ports = allocated_ports

\* C9: stop(x) on an Online record changes only x: x becomes Stopped and x's port is no
\* longer in the allocated ports, while every other record keeps its state and every
\* other record's port stays allocated.
C9_StopFrame ==
    \A identifier \in Identifiers(Pack) :
        (Resolves(identifier) /\ Target(identifier).state = "Online")
            => LET x == resolve_identifier(Pack, identifier)
                   r == manager_stop(Pack, identifier, TRUE)
               IN r.ok
                    => /\ r.M.processes[x].state = "Stopped"
                       /\ processes[x].assigned_port # 0
                             => processes[x].assigned_port \notin r.M.allocated_ports
                       /\ \A k \in DOMAIN processes \ {x} :
                             /\ r.M.processes[k] = processes[k]
                             /\ processes[k].assigned_port \in allocated_ports
                                   => processes[k].assigned_port \in r.M.allocated_ports

\* C10: after delete(x) returns successfully, x's id is not in the records, x's name is
\* not in the name index, x's child is not running, and none of the ports that were
\* reserved for x remains in the allocated-port table.
C10_DeleteReleasesEverything ==
    \A identifier \in Identifiers(Pack) :
        Resolves(identifier)
            => LET x == resolve_identifier(Pack, identifier)
                   r == delete(Pack, identifier, TRUE)
               IN r.ok
                    => /\ x \notin DOMAIN r.M.processes
                       /\ processes[x].config.name \notin DOMAIN r.M.name_to_id
                       /\ processes[x].child \notin r.M.alive
                       /\ processes[x].assigned_port # 0
                             => processes[x].assigned_port \notin r.M.allocated_ports

\* the ports other records hold: their assigned ports and the ranges of their configs
HeldByOthers(x) ==
    UNION {{processes[k].assigned_port} \cup
               (IF processes[k].config.port.kind # "none"
                THEN PortRange(processes[k].config.port) ELSE {}) :
           k \in DOMAIN processes \ {x}}

\* C11: after a successful restart(x, port_override = S) of a record that held a port,
\* x's assigned_port is the port reserved for S, that port is in the allocated-port
\* table, and the port x held before is no longer in the table unless it is part of S.
C11_RestartOverrideMovesReservation ==
    \A identifier \in Identifiers(Pack) : \A port_override \in PortOverrides \ {NoPort} :
        Resolves(identifier)
            => LET x == resolve_identifier(Pack, identifier)
                   old == processes[x].assigned_port
                   r == restart_with_port(Pack, identifier, port_override, TRUE, TRUE)
               IN (r.ok /\ old \in allocated_ports /\ old \notin HeldByOthers(x))
                    => /\ r.M.processes[x].assigned_port \in PortRange(port_override)
                       /\ r.M.processes[x].assigned_port \in r.M.allocated_ports
                       /\ old \notin PortRange(port_override)
                             => old \notin r.M.allocated_ports

\* the names start(config) is about to give to its records
TargetNames(config) ==
    IF config.instances = 1
    THEN {config.name}
    ELSE {InstanceName(config.name, i) : i \in 0..(config.instances - 1)}

\* C12: start(config) is rejected with AlreadyExists when config.name (one instance)
\* or any of the names {name}-0 .. {name}-(k-1) (cluster of k) is in the name index,
\* and the rejected start adds no record, no name, no port reservation and no child.
C12_StartRejectsTakenName ==
    \A config \in ClusterConfigs : \A fail_at \in 0..config.instances :
        LET r == start(Pack, config, SpawnOks(config.instances, fail_at),
                       [i \in 1..config.instances |-> TRUE])
        IN TargetNames(config) \cap DOMAIN name_to_id # {}
               => /\ ~r.ok
                  /\ r.err = "AlreadyExists"
                  /\ r.M = Pack

\* one name of a cluster is taken and another one is free
C12_Witness ==
    \E config \in ClusterConfigs :
        /\ config.instances > 1
        /\ TargetNames(config) \cap DOMAIN name_to_id # {}
        /\ TargetNames(config) \ DOMAIN name_to_id # {}

\* C13: Process start() succeeds only from state Stopped or Errored; called in any
\* other state (Starting, Online, Stopping, Restarting) it returns AlreadyRunning and
\* leaves state, child handle, pid and restart_count unchanged.
C13_StartOnlyFromStoppedOrErrored ==
    \A k \in DOMAIN processes : \A spawn_ok \in BOOLEAN :
        LET r == start_with_logs(Pack, processes[k], spawn_ok)
        IN /\ r.ok => processes[k].state \in {"Stopped", "Errored"}
           /\ processes[k].state \notin {"Stopped", "Errored"}
                 => /\ r.err = "AlreadyRunning"
                    /\ r.p = processes[k]

\* C14: after a successful start(cfg) with instances = k > 1 there are exactly k new
\* records, named {cfg.name}-0 .. {cfg.name}-(k-1); the record named {cfg.name}-i has
\* instance_index = i, config.instances = 1 and the instance id i (as a string) in its
\* environment.
C14_ClusterSymmetry ==
    \A config \in ClusterConfigs :
        LET r == start(Pack, config, SpawnOks(config.instances, 0),
                       [i \in 1..config.instances |-> TRUE])
            added == DOMAIN r.M.processes \ DOMAIN processes
        IN (config.instances > 1 /\ r.ok)
               => /\ Cardinality(added) = config.instances
                  /\ {r.M.processes[k].config.name : k \in added} = TargetNames(config)
                  /\ \A i \in 0..(config.instances - 1) :
                        LET name == InstanceName(config.name, i)
                            p == r.M.processes[r.M.name_to_id[name]]
                        IN /\ name \in DOMAIN r.M.name_to_id
                           /\ p.config.name = name
                           /\ p.config.instances = 1
                           /\ "PM2_INSTANCE_ID" \in DOMAIN p.config.env
                           /\ p.config.env["PM2_INSTANCE_ID"] = to_string(i)
                           /\ p.instance = i

\* the record that carries a name
Named(M, name) == M.processes[M.name_to_id[name]]

\* C15: after a successful start of a cluster of k instances: with Range(a,b) the i-th
\* instance has assigned_port = a+i; with Single(p) instance 0 has assigned_port = p
\* and every other instance has no port; with Auto(a,b) every instance has a port in
\* [a,b] and the k ports are pairwise distinct.
C15_ClusterPortDistribution ==
    \A config \in ClusterConfigs :
        LET r == start(Pack, config, SpawnOks(config.instances, 0),
                       [i \in 1..config.instances |-> TRUE])
            port(i) == Named(r.M, InstanceName(config.name, i)).assigned_port
            instances == 0..(config.instances - 1)
        IN (config.instances > 1 /\ r.ok)
               => /\ config.port.kind = "range"
                        => \A i \in instances : port(i) = config.port.lo + i
                  /\ config.port.kind = "single"
                        => /\ port(0) = config.port.lo
                           /\ \A i \in instances \ {0} : port(i) = 0
                  /\ config.port.kind = "auto"
                        => /\ \A i \in instances : port(i) \in PortRange(config.port)
                           /\ \A i, j \in instances : i # j => port(i) # port(j)

\* a cluster started on a range is running: every instance is Online on its port
C15_Witness ==
    \E config \in ClusterConfigs :
        /\ config.instances > 1
        /\ config.port.kind = "range"
        /\ TargetNames(config) \subseteq DOMAIN name_to_id
        /\ \A i \in 0..(config.instances - 1) :
              /\ Named(Pack, InstanceName(config.name, i)).state = "Online"
              /\ Named(Pack, InstanceName(config.name, i)).config.port
                     = Single(config.port.lo + i)
              /\ Named(Pack, InstanceName(config.name, i)).assigned_port = config.port.lo + i

\* C16: start(cfg) with port Range(a,b) and instances > b-a+1 fails the cluster start,
\* and after the failure no instance of that cluster exists as a record, holds a port
\* or is running.
C16_ShortRangeFailsCleanly ==
    \A config \in ShortRangeConfigs :
        LET r == start(Pack, config, SpawnOks(config.instances, 0),
                       [i \in 1..config.instances |-> TRUE])
        IN TargetNames(config) \cap DOMAIN name_to_id = {}
               => /\ ~r.ok
                  /\ TargetNames(config) \cap DOMAIN r.M.name_to_id = {}
                  /\ \A k \in DOMAIN r.M.processes :
                        r.M.processes[k].config.name \notin TargetNames(config)
                  /\ r.M.allocated_ports = allocated_ports
                  /\ r.M.alive = alive

\* every non-empty range of ports
RangeSpecs == {pc \in {Range(a, b) : a, b \in 1..MaxPort} : pc.lo <= pc.hi}

\* C17: reserving Range(a,b) is atomic: either every port a..b becomes reserved and a
\* is returned, or, when at least one port in a..b is already reserved, the call fails
\* and the allocated-port table is exactly as before.
C17_RangeReservationAtomic ==
    \A pc \in RangeSpecs :
        LET r == allocate_port(allocated_ports, pc)
        IN \/ /\ PortRange(pc) \cap allocated_ports = {}
              /\ r.ok
              /\ r.port = pc.lo
              /\ r.ports = allocated_ports \cup PortRange(pc)
           \/ /\ PortRange(pc) \cap allocated_ports # {}
              /\ ~r.ok
              /\ r.ports = allocated_ports

\* the first port of a range is free and a later one is reserved
C17_Witness ==
    \E pc \in RangeSpecs :
        /\ pc.lo \notin allocated_ports
        /\ PortRange(pc) \cap allocated_ports # {}

\* every non-empty range of ports to pick one from
AutoSpecs == {pc \in {Auto(a, b) : a, b \in 1..MaxPort} : pc.lo <= pc.hi}

\* C18: reserving Auto(a,b) returns the smallest port in a..b that is not reserved and
\* adds exactly that one port to the table; when every port in a..b is reserved it
\* fails and leaves the table unchanged.
C18_AutoTakesSmallestFree ==
    \A pc \in AutoSpecs :
        LET r == allocate_port(allocated_ports, pc)
            free == PortRange(pc) \ allocated_ports
        IN \/ /\ free # {}
              /\ r.ok
              /\ r.port \in free
              /\ \A q \in free : r.port <= q
              /\ r.ports = allocated_ports \cup {r.port}
           \/ /\ free = {}
              /\ ~r.ok
              /\ r.ports = allocated_ports

\* the first port of a range is reserved and a later one is free
C18_Witness ==
    \E pc \in AutoSpecs :
        /\ pc.lo \in allocated_ports
        /\ PortRange(pc) \ allocated_ports # {}

\* Uuid::parse_str: whether a text spells an id, and the id it spells
IsUuid(str) == \E i \in 1..Len(UuidStr) : UuidStr[i] = str
ParseUuid(str) == CHOOSE i \in 1..Len(UuidStr) : UuidStr[i] = str

\* C19: an identifier resolves to the record whose id it spells when it is a valid id
\* string and that id is in the store (also when it is another record's name: the id
\* wins); otherwise to the record with that name; if neither exists, stop, restart and
\* delete fail with NotFound and change nothing.
C19_IdentifierResolution ==
    \A identifier \in Identifiers(Pack) \cup {AliasName} :
        LET x == resolve_identifier(Pack, identifier)
            by_id == IsUuid(identifier) /\ ParseUuid(identifier) \in DOMAIN processes
        IN /\ by_id => x = ParseUuid(identifier)
           /\ (~by_id /\ identifier \in DOMAIN name_to_id) => x = name_to_id[identifier]
           /\ (~by_id /\ identifier \notin DOMAIN name_to_id)
                 => /\ x = 0
                    /\ \A ok \in BOOLEAN :
                          /\ manager_stop(Pack, identifier, ok).err = "NotFound"
                          /\ manager_stop(Pack, identifier, ok).M = Pack
                          /\ delete(Pack, identifier, ok).err = "NotFound"
                          /\ delete(Pack, identifier, ok).M = Pack
                          /\ \A port_override \in PortOverrides :
                                LET r == restart_with_port(Pack, identifier, port_override,
                                                           ok, TRUE)
                                IN r.err = "NotFound" /\ r.M = Pack

\* a text is the id of one stored record and the name of another one
C19_Witness ==
    \E k \in DOMAIN processes : \E name \in DOMAIN name_to_id :
        /\ UuidStr[k] = name
        /\ name_to_id[name] # k
        /\ name_to_id[name] \in DOMAIN processes

\* Display for ProcessState: the lower-case name of a state
state_display(state) ==
    CASE state = "Starting" -> "starting"
      [] state = "Online" -> "online"
      [] state = "Stopping" -> "stopping"
      [] state = "Stopped" -> "stopped"
      [] state = "Errored" -> "errored"
      [] state = "Restarting" -> "restarting"

\* the ports reserved for a record: its assigned port, and its whole range if it was
\* started on one
ReservedFor(p) ==
    {p.assigned_port} \cup (IF p.config.port.kind = "range" THEN PortRange(p.config.port) ELSE {})

\* the outcomes of the stops a bulk delete performs
BulkStopOks == [{k \in DOMAIN processes : is_running(processes[k])} -> BOOLEAN]

\* C20: delete_by_state(s) removes exactly the records whose state equals s (compared
\* case-insensitively), returns how many it removed, and leaves all other records,
\* their names and their ports unchanged; delete_all removes every record and returns
\* the number of records that existed before the call.
C20_BulkDeletes ==
    \A stop_oks \in BulkStopOks :
        /\ \A status_str \in StatusStrings :
              LET r == delete_by_status(Pack, status_str, stop_oks)
                  matching == {k \in DOMAIN processes :
                                  state_display(processes[k].state) = to_lowercase(status_str)}
                  others == DOMAIN processes \ matching
                  released == UNION {ReservedFor(processes[k]) : k \in matching}
              IN r.ok
                   => /\ DOMAIN r.M.processes = others
                      /\ r.count = Cardinality(matching)
                      /\ \A k \in others :
                            /\ r.M.processes[k] = processes[k]
                            /\ processes[k].config.name \in DOMAIN name_to_id
                                  => /\ processes[k].config.name \in DOMAIN r.M.name_to_id
                                     /\ r.M.name_to_id[processes[k].config.name]
                                            = name_to_id[processes[k].config.name]
                            /\ (/\ processes[k].assigned_port \in allocated_ports
                                /\ processes[k].assigned_port \notin released)
                                  => processes[k].assigned_port \in r.M.allocated_ports
        /\ LET r == delete_all(Pack, stop_oks)
           IN /\ r.ok
              /\ DOMAIN r.M.processes = {}
              /\ r.count = Cardinality(DOMAIN processes)
\* C21 as stated: for an enabled health check, a failed check that brings
\* consecutive_failures to at least retries leaves Unhealthy, a successful check leaves
\* Healthy with consecutive_failures = 0, and in every reachable health status
\* consecutive_failures >= retries implies state = Unhealthy.
CheckPostconditions ==
    \A check_ok \in BOOLEAN :
        LET after == check(health, check_ok).status IN
        /\ check_ok => after.state = "Healthy" /\ after.consecutive_failures = 0
        /\ ~check_ok /\ after.consecutive_failures >= health.config.retries
               => after.state = "Unhealthy"

C21_HealthStateLaw ==
    health.config.enabled =>
        /\ CheckPostconditions
        /\ health.status.consecutive_failures >= health.config.retries
               => health.status.state = "Unhealthy"

\* C21 amended: the two post-conditions of a check hold, and in every reachable health
\* status consecutive_failures >= retries together with consecutive_failures >= 1
\* implies state = Unhealthy (with retries = 0 a status without failures is Unknown
\* or Healthy).
C21_HealthStateLawAfterFailure ==
    health.config.enabled =>
        /\ CheckPostconditions
        /\ (health.status.consecutive_failures >= health.config.retries
               /\ health.status.consecutive_failures >= 1)
               => health.status.state = "Unhealthy"

\* a check succeeded, and later failures reached the threshold of a check with retries
C21_Witness ==
    /\ health.config.enabled
    /\ health.config.retries > 1
    /\ health.status.consecutive_failures >= health.config.retries
    /\ health.status.total_checks > health.status.consecutive_failures
    /\ health.status.state = "Unhealthy"

\* the ports the recovery of the record saved under `name` has to reserve again: p for
\* Single(p), a..b for Range(a,b), the saved assigned_port for Auto
RecoveredReservation(d, name) ==
    LET port == ProcessConfig_from_json(d.cfg[name]).config.port IN
    CASE port.kind = "single" -> {port.lo}
      [] port.kind = "range" -> PortRange(port)
      [] port.kind = "auto" ->
            IF name \in DOMAIN d.meta /\ d.meta[name].assigned_port # 0
            THEN {d.meta[name].assigned_port} ELSE {}
      [] OTHER -> {}

\* C22: after startup recovery, every record whose pid file names a live process is
\* Online and has its port reservation back in the allocated-port table (p for
\* Single(p), every port a..b for Range(a,b), the saved assigned_port for Auto); a
\* record whose pid is dead is Stopped and its stale pid file is removed.
C22_RecoveryRestoresRunning ==
    \A detected \in [DOMAIN disk.cfg -> {0, MaxPort}] :
        LET R == new_manager(Pack, detected) IN
        \A name \in DOMAIN disk.pid \cap DOMAIN disk.cfg :
            /\ name \in DOMAIN R.name_to_id
            /\ IF disk.pid[name] \in alive
               THEN /\ Named(R, name).state = "Online"
                    /\ RecoveredReservation(disk, name) \subseteq R.allocated_ports
               ELSE /\ Named(R, name).state = "Stopped"
                    /\ name \notin DOMAIN R.disk.pid

\* the records a reconcile tick marks for restart
marked(M, memory) == memory_marked(M, memory) \cup crash_marked(M)

\* C29: in a reconcile tick, every running record that has max_memory_bytes set and
\* whose sampled memory_bytes is strictly greater than max_memory_bytes is marked for
\* restart, whatever the two byte values are.
C29_MemoryAboveLimitMarked ==
    \A memory \in [monitored(Pack) -> MemorySamples] :
        \A k \in monitored(Pack) :
            (/\ is_running(processes[k])
             /\ processes[k].config.max_memory_restart # 0
             /\ memory[k] > processes[k].config.max_memory_restart)
                => k \in marked(Pack, memory)

\* a sequence of record ids is in ascending order
Ascending(q) == \A i, j \in 1..Len(q) : i < j => q[i] < q[j]

\* C30: every record marked for restart during a reconcile tick is restarted within
\* that same tick (its restart count goes up by one), and the marked records are
\* restarted in ascending order of record id.
C30_AllMarkedRestartedInIdOrder ==
    \A memory \in [monitored(Pack) -> MemorySamples] :
    \A memory_order \in Orders(memory_marked(Pack, memory)) :
    \A crash_order \in Orders(crash_marked(Pack)) :
    \A spawn_oks \in [marked(Pack, memory) -> BOOLEAN] :
        LET R == check_all_processes(Pack, memory, memory_order, crash_order, spawn_oks) IN
        /\ \A k \in marked(Pack, memory) :
               R.processes[k].restarts = processes[k].restarts + 1
        /\ Ascending(memory_order \o crash_order)

\* C23: a failure to write a persistence file (pid file, config or metadata) during
\* start does not abort the in-memory transition: the spawned child's record is
\* inserted into the records and the name index, and start returns its id.
C23_WriteFailureKeepsRecord ==
    \A config \in SingleConfigs : \A write_fail \in 1..3 :
        LET r == start_single_instance_io(Pack, config, TRUE, write_fail) IN
        r.M.alive # alive =>
            /\ r.ok
            /\ r.id \in DOMAIN r.M.processes
            /\ config.name \in DOMAIN r.M.name_to_id
            /\ r.M.name_to_id[config.name] = r.id
            /\ pid(r.M.processes[r.id]) \in r.M.alive \ alive

\* C28: for every PortSpec s with lo <= hi (Single(p), Range(lo,hi), Auto(lo,hi)),
\* parsing the text produced by formatting s succeeds and returns s.
C28_PortSpecRoundTrip ==
    /\ port_io.spec # NoPort =>
           PortConfig_parse(PortConfig_fmt(port_io.spec)) = [ok |-> TRUE, value |-> port_io.spec]
    /\ port_io.text # <<>> =>
           PortConfig_parse(port_io.text) = [ok |-> TRUE, value |-> port_io.spec]
    /\ port_io.parsed # NotParsed => port_io.parsed = [ok |-> TRUE, value |-> port_io.spec]

\* an Auto setting with a one-digit start and a two-digit end has been written and read
C28_Witness ==
    /\ port_io.spec.kind = "auto"
    /\ port_io.spec.lo < 10
    /\ port_io.spec.hi >= 10
    /\ port_io.text = PortConfig_fmt(port_io.spec)
    /\ port_io.parsed.ok
    /\ port_io.parsed.value = port_io.spec

\* C27: persisting a record's config and re-loading it at startup yields a record
\* whose config equals the original in every field, including the port spec and the
\* memory limit (the text written for the limit parses back to the same bytes).
C27_ConfigRoundTrip ==
    \A k \in DOMAIN processes :
    \A detected \in [DOMAIN disk.cfg \cup {processes[k].config.name} -> {0}] :
        LET p == processes[k]
            saved == [Pack EXCEPT !.disk = save_process_config(disk, p)]
            R == new_manager(saved, detected)
        IN /\ p.config.name \in DOMAIN R.name_to_id
           /\ Named(R, p.config.name).config = p.config

\* the request presents the key in one of the three forms: Authorization: Bearer <key>,
\* Authorization: ApiKey <key>, X-API-Key: <key>
PresentsKey(req, key) ==
    \/ req.authorization = Some(BearerPrefix \o key)
    \/ req.authorization = Some(ApiKeyPrefix \o key)
    \/ req.x_api_key = Some(key)

\* C26: when an API key is configured, a request to a path other than / and /ws
\* reaches its handler if and only if it presents the configured key in at least one
\* of the three forms, and every other such request gets 401; when no key is
\* configured every request reaches its handler.
C26_ApiKeyAuthentication ==
    web.response # "none" =>
        IF web.api_key.some
        THEN web.request.path \notin {RootPath, WsPath} =>
                 /\ web.response = "handler" <=> PresentsKey(web.request, web.api_key.text)
                 /\ web.response = "401" <=> ~PresentsKey(web.request, web.api_key.text)
        ELSE web.response = "handler"

\* C24: shutting down the supervisor (signal-triggered shutdown or dropping the
\* manager) sends no termination signal to managed children: the set of live child
\* processes is the same after the shutdown step as before it.
C24_ShutdownKeepsChildren ==
    [][(ReceiveSignal \/ DropManager) => alive' = alive]_vars

\* a shutdown was requested by signal and the manager is gone, while a child that a
\* pid file names is still alive
C24_Witness ==
    /\ shutdown_requested
    /\ ~supervisor_up
    /\ processes = Empty
    /\ \E name \in DOMAIN disk.pid : disk.pid[name] \in alive


\* the records, the name index and the port table of a manager
Tables(M) == <<M.processes, M.name_to_id, M.allocated_ports>>

\* the command task has changed some of the tables and has more changes to make
MidCmd == at["cmd"] \in {"start_spawn", "delete_release"}
\* the tick has changed some of the records and has more changes to make
MidTick == at["tick"] = "restart"

\* the tables after the call of the command task, had it run alone on the manager it
\* was called on
CmdAlone ==
    CASE cmd_op.op = "start" ->
            Tables(start_single_instance(cmd_op.pre, cmd_op.config, cmd_op.spawn_ok).M)
      [] cmd_op.op = "stop" ->
            Tables(manager_stop(cmd_op.pre, cmd_op.identifier, cmd_op.stop_ok).M)
      [] cmd_op.op = "restart" ->
            Tables(restart_with_port(cmd_op.pre, cmd_op.identifier, cmd_op.port_override,
                                     cmd_op.spawn_ok, TRUE).M)
      [] OTHER ->
            Tables(delete(cmd_op.pre, cmd_op.identifier, cmd_op.stop_ok).M)

\* the tables after the tick, had it run alone on the manager it found
TickAlone ==
    Tables(check_all_processes(tick_op.pre, tick_op.memory, tick_op.memory_order,
                               tick_op.crash_order, tick_op.spawn_oks))

C31_StoppedStaysStopped ==
    \A memory \in [monitored(Pack) -> MemorySamples] :
    \A memory_order \in Orders(memory_marked(Pack, memory)) :
    \A crash_order \in Orders(crash_marked(Pack)) :
    \A spawn_oks \in [marked(Pack, memory) -> BOOLEAN] :
        LET R == check_all_processes(Pack, memory, memory_order, crash_order, spawn_oks) IN
        \A k \in DOMAIN processes :
            (processes[k].state = "Stopped" /\ processes[k].child = 0)
                => /\ k \notin crash_marked(Pack)
                   /\ R.processes[k].state = "Stopped"


DEFAULT_MIN_UPTIME == 1000

\* ProcessConfig::min_uptime (every configuration of the model keeps the default)
min_uptime(config) == DEFAULT_MIN_UPTIME

\* how long the child that exited had been Online, in milliseconds
Uptimes == {0, DEFAULT_MIN_UPTIME - 1, DEFAULT_MIN_UPTIME, 2 * DEFAULT_MIN_UPTIME}

\* C33: when the child of a record exited after the record had been Online for at least
\* min_uptime, the tick resets the restart counter to 0 before it restarts the record, so
\* the counter reads at most 1 after the tick, whatever it read before.
C33_StableRunClearsCounter ==
    \A online_for \in Uptimes :
    \A memory \in [monitored(Pack) -> MemorySamples] :
    \A memory_order \in Orders(memory_marked(Pack, memory)) :
    \A crash_order \in Orders(crash_marked(Pack)) :
    \A spawn_oks \in [marked(Pack, memory) -> BOOLEAN] :
        LET R == check_all_processes(Pack, memory, memory_order, crash_order, spawn_oks) IN
        \A k \in crash_marked(Pack) :
            (/\ processes[k].state = "Online"
             /\ processes[k].child # 0
             /\ online_for >= min_uptime(processes[k].config))
                => R.processes[k].restarts <= 1

\* the ports a record can own: its assigned port and every port of its configured setting
OwnedBy(p) ==
    {p.assigned_port} \cup (IF p.config.port.kind # "none" THEN PortRange(p.config.port) ELSE {})

\* C34: every port in the allocated-port table is reserved for a record that exists in
\* the store, after any sequence of successful and failed starts, restarts with a port
\* override, deletes and ticks.
C34_AllocatedPortsAreOwned ==
    \A port \in allocated_ports :
        \E k \in DOMAIN processes : port \in OwnedBy(processes[k])

\* C35: once a start, stop, restart or liveness check has returned, with success or with
\* an error, the state of every record is Online, Stopped or Errored, never Starting,
\* Stopping or Restarting.
C35_SettledStates ==
    \A k \in DOMAIN processes : processes[k].state \in {"Online", "Stopped", "Errored"}

\* a Stopped record has no start time
StoppedHasNoStart ==
    \A k \in DOMAIN processes : processes[k].state = "Stopped" => processes[k].started_at = 0

\* C36: started_at is the time of the record's most recent transition to Online: after a
\* successful restart of an Online record it is the time the new child came Online, not
\* the start time of the previous run; and it is absent whenever the record is Stopped.
C36_StartedAtIsLastOnline ==
    /\ StoppedHasNoStart
    /\ \A k \in DOMAIN processes : \A spawn_ok, stop_ok \in BOOLEAN :
            LET r == restart(Pack, processes[k], spawn_ok, stop_ok)
            IN  (processes[k].state = "Online" /\ r.ok)
                    => /\ r.p.state = "Online"
                       /\ r.p.started_at = Utc_now(r.M)

\* C37: a reconcile tick over a record whose enabled health check is due runs the check
\* once (total_checks grows by one); a disabled health check is never run and its state
\* stays Unknown.
C37_TickRunsDueChecks ==
    [][\A due \in BOOLEAN :
        (CheckAllProcesses /\ DOMAIN processes # {})
            => /\ (health.config.enabled /\ due)
                    => health'.status.total_checks = health.status.total_checks + 1
               /\ ~health.config.enabled
                    => health' = health /\ health.status.state = "Unknown"]_vars

\* the locks a task holds
Holding(t) == {l \in LockNames : lock_table[l].writer = t \/ t \in lock_table[l].readers}

\* one order of the locks
LockRank == [l \in LockNames |->
                CASE l = "manager" -> 0 [] l = "processes" -> 1 [] l = "name_to_id" -> 2
                  [] l = "monitor" -> 3 [] l = "allocated_ports" -> 4]

\* a task asks only for locks that come after every lock it holds
OrderedAcquisition ==
    \A t \in LockTasks :
        (Busy(t) /\ lock_call[t].queued)
            => \A h \in Holding(t) : LockRank[h] < LockRank[NextStep(t)[2]]

\* a task inside a call that is not waiting, or whose wait can end now
CanAdvance(t) == Busy(t) /\ (lock_call[t].queued => Grantable(t))

\* while calls are in progress, one of them can take a step
NoDeadlock == (\E t \in LockTasks : Busy(t)) => (\E t \in LockTasks : CanAdvance(t))

\* a task that is outside a call, or about to return from one, holds no lock
ReleasedOnReturn ==
    \A t \in LockTasks : (~Busy(t) \/ Returning(t)) => Holding(t) = {}

\* C38: no set of concurrent supervisor operations (tick, monitoring update, list,
\* system info, start, stop, restart, delete) deadlocks: every task asks for locks in one
\* order (manager, records, name index, monitor, port table), some call in progress can
\* always take a step, a returning call holds no lock, and every call returns.
C38_NoDeadlock ==
    /\ [](OrderedAcquisition /\ NoDeadlock /\ ReleasedOnReturn)
    /\ \A t \in LockTasks : Busy(t) ~> ~Busy(t)

\* a task holds the manager, the records and the monitor while another task waits for
\* one of these locks behind it
C38_Witness ==
    \E t, u \in LockTasks :
        /\ t # u
        /\ {"manager", "processes", "monitor"} \subseteq Holding(t)
        /\ lock_call[u].queued /\ ~Grantable(u)
        /\ NextStep(u)[2] \in Holding(t) \ {"manager"}

\* C39: graceful termination escalates in order: SIGKILL is sent only after SIGTERM and
\* only once the timeout has elapsed; the call fails only if the process is still there
\* after the further 500 ms wait, and otherwise succeeds, so a call that has returned
\* an error left a process that was killed in vain, and a call that has returned
\* success left no process (for calls with a timeout above 0 whose SIGTERM was sent).
C39_GracefulEscalation ==
    /\ term.kill_sent => term.term_sent
    /\ (term.at = "done" /\ term.term_sent /\ term.timeout_ms > 0) =>
            /\ term.result = "Ok" <=> ~term.exists
            /\ term.result # "Ok" => term.kill_sent

\* the subscriber got the ProcessList frame first and then frames in the order they
\* were sent, none of them twice
InSendOrder ==
    /\ stream.delivered # <<>> => stream.delivered[1] = [kind |-> "ProcessList", n |-> 0]
    /\ \A i \in 2..Len(stream.delivered) :
            /\ stream.delivered[i] = frame(stream.delivered[i].n)
            /\ stream.delivered[i - 1].n < stream.delivered[i].n

\* C40: a subscriber first receives one ProcessList frame, then frames in the producer's
\* send order without duplicates; a subscriber that fell behind by more than the channel
\* capacity loses the oldest frames and goes on receiving: as long as the client keeps
\* the socket open the stream to it is not ended.
C40_StreamSurvivesLag ==
    /\ InSendOrder
    /\ (stream.at = "closed") => ~stream.client_open
====
